---- MODULE Spec2Model ----
(***************************************************************************)
(* Sequential multi-approver approval workflow of the portal              *)
(* (src/routers/approvals_router.py, the router mounted by src/main.py).  *)
(*                                                                         *)
(* Text values are sequences of one-character strings, so that the        *)
(* normalisation helpers (_norm, _normi, strip) are computed, not         *)
(* assumed.  Database tables are sets or sequences of row records.        *)
(***************************************************************************)
EXTENDS Integers, Sequences, FiniteSets, TLC

VARIABLES approvals, steps, actions, memos, files, versions,
          next_step_id, next_action_id, next_file_id, sess

vars == <<approvals, steps, actions, memos, files, versions,
          next_step_id, next_action_id, next_file_id, sess>>

(***************************************************************************)
(* Bounds of the exploration.                                              *)
(***************************************************************************)
MaxReq == 2
MaxStepId == 3
MaxLog == 3

(***************************************************************************)
(* Text helpers.                                                           *)
(***************************************************************************)
NULL == <<"NULL">>

casefold_char(ch) ==
    CASE ch = "A" -> "a"
      [] ch = "B" -> "b"
      [] ch = "C" -> "c"
      [] ch = "W" -> "w"
      [] OTHER -> ch

RECURSIVE norm_from(_, _, _)
norm_from(s, i, out) ==
    IF i > Len(s) THEN out
    ELSE IF s[i] = " " THEN norm_from(s, i + 1, out)
    ELSE norm_from(s, i + 1,
                   IF out # <<>> /\ i > 1 /\ s[i - 1] = " "
                   THEN out \o <<" ", s[i]>>
                   ELSE Append(out, s[i]))

\* " ".join(str(s or "").split())
norm(s) == norm_from(s, 1, <<>>)

\* _norm(s).casefold()
normi(s) == [i \in DOMAIN norm(s) |-> casefold_char(norm(s)[i])]

RECURSIVE lstrip(_)
lstrip(s) == IF s # <<>> /\ Head(s) = " " THEN lstrip(Tail(s)) ELSE s

RECURSIVE rstrip(_)
rstrip(s) ==
    IF s # <<>> /\ s[Len(s)] = " " THEN rstrip(SubSeq(s, 1, Len(s) - 1)) ELSE s

\* str.strip()
strip(s) == rstrip(lstrip(s))

\* _combine_label(english_name, name)
combine_label(english_name, name) ==
    LET a == strip(english_name)
        b == strip(name)
    IN IF a # <<>> /\ b # <<>> THEN a \o <<" ">> \o b
       ELSE IF a # <<>> THEN a ELSE b

RECURSIVE before_at(_)
\* mail.split("@")[0]
before_at(mail) ==
    IF mail = <<>> \/ Head(mail) = "@" THEN <<>>
    ELSE <<Head(mail)>> \o before_at(Tail(mail))

\* _normalize_scope(raw_scope)
normalize_scope(raw_scope) ==
    IF raw_scope \in {"org", "restricted", "top_secret"} THEN raw_scope
    ELSE "restricted"

(***************************************************************************)
(* Employee directory (table employees), fixed during a run.               *)
(***************************************************************************)
Employees ==
    << [english_name |-> <<"A">>, name |-> <<"W">>, email |-> <<"q", "@", "h">>],
       [english_name |-> <<"B">>, name |-> <<>>, email |-> <<>>] >>

\* _find_employee_by_display: index of the first matching row, 0 for None
find_employee_by_display(display_name) ==
    LET target == normi(display_name)
        hit(r) == /\ (strip(Employees[r].english_name) # <<>>
                        \/ strip(Employees[r].name) # <<>>)
                  /\ target \in { normi(Employees[r].english_name),
                                  normi(Employees[r].name),
                                  normi(combine_label(Employees[r].english_name,
                                                      Employees[r].name)) }
        hits == { r \in DOMAIN Employees : hit(r) }
    IN IF target = <<>> \/ hits = {} THEN 0
       ELSE CHOOSE r \in hits : \A q \in hits : r <= q

\* the approver_name stored for a display name at creation (lines 716-728)
create_save_name(disp) ==
    LET emp == find_employee_by_display(disp)
    IN IF emp # 0
       THEN IF Employees[emp].name # <<>> THEN Employees[emp].name
            ELSE IF Employees[emp].english_name # <<>>
                 THEN Employees[emp].english_name
                 ELSE disp
       ELSE strip(disp)

\* user_identity_keys(login_user)
user_identity_keys(login_user) ==
    LET u == normi(login_user)
        forms_n(r) ==
            { normi(x) : x \in { y \in { Employees[r].english_name,
                                         Employees[r].name,
                                         combine_label(Employees[r].english_name,
                                                       Employees[r].name),
                                         before_at(Employees[r].email) }
                                 : y # <<>> } }
        keys == (IF u # <<>> THEN {u} ELSE {})
                  \cup UNION { forms_n(r) : r \in { q \in DOMAIN Employees
                                                     : u \in forms_n(q) } }
    IN { k \in keys : k # <<>> }

(***************************************************************************)
(* Permissions.                                                            *)
(***************************************************************************)
\* can_use_approvals(role, permissions); the permissions cookie is JSON text
can_use_approvals(role, permissions) ==
    IF role = "admin" THEN TRUE
    ELSE permissions = "{approvals:true}"

(***************************************************************************)
(* Database snapshot passed to the handlers.                               *)
(***************************************************************************)
DB == [approvals |-> approvals, steps |-> steps, actions |-> actions,
       memos |-> memos, files |-> files, versions |-> versions,
       next_step_id |-> next_step_id, next_action_id |-> next_action_id,
       next_file_id |-> next_file_id]

steps_of(db, approval_id) == { s \in db.steps : s.approval_id = approval_id }

exists_approval(db, approval_id) == approval_id \in DOMAIN db.approvals

\* _is_requester_or_admin(approval_id, user, role)
is_requester_or_admin(db, approval_id, user, role) ==
    IF role = "admin" THEN TRUE
    ELSE exists_approval(db, approval_id)
         /\ db.approvals[approval_id].requester = user

\* bug: ORDER BY step_order without the id as tie-break
renumber_steps_no_tiebreak(db, approval_id) ==
    LET rows == steps_of(db, approval_id)
        idx(s) == Cardinality({ t \in rows : t.step_order < s.step_order })
    IN [db EXCEPT !.steps = (db.steps \ rows)
                      \cup { [s EXCEPT !.step_order = idx(s)] : s \in rows }]

\* bug: the renumbering is skipped
renumber_steps_skipped(db, approval_id) == db

\* bug: the positions are numbered from 1
renumber_steps_from_one(db, approval_id) ==
    LET rows == steps_of(db, approval_id)
        idx(s) == Cardinality({ t \in rows :
                       \/ t.step_order < s.step_order
                       \/ (t.step_order = s.step_order /\ t.id <= s.id) })
    IN [db EXCEPT !.steps = (db.steps \ rows)
                      \cup { [s EXCEPT !.step_order = idx(s)] : s \in rows }]

\* _renumber_steps(approval_id): dense 0..n-1 in (step_order, id) order
renumber_steps(db, approval_id) ==
    LET rows == steps_of(db, approval_id)
        idx(s) == Cardinality({ t \in rows :
                       \/ t.step_order < s.step_order
                       \/ (t.step_order = s.step_order /\ t.id < s.id) })
    IN [db EXCEPT !.steps = (db.steps \ rows)
                      \cup { [s EXCEPT !.step_order = idx(s)] : s \in rows }]

\* INSERT INTO approval_actions (_log_action and the inline inserts)
log_action(db, approval_id, actor, action, note, step_id) ==
    [db EXCEPT !.actions = Append(db.actions,
                  [id |-> db.next_action_id, approval_id |-> approval_id,
                   step_id |-> step_id, actor |-> actor, action |-> action,
                   note |-> note]),
               !.next_action_id = db.next_action_id + 1]

\* rows of approval_files of one request
files_of(db, approval_id) == { f \in db.files : f.approval_id = approval_id }

\* _build_approval_snapshot(conn, approval_id)
build_approval_snapshot(db, approval_id) ==
    [approval |-> db.approvals[approval_id],
     attachments |-> files_of(db, approval_id)]

\* _record_version(conn, approval_id, actor, change_type, detail)
record_version(db, approval_id, actor, change_type) ==
    IF ~exists_approval(db, approval_id) THEN db
    ELSE
      LET mine == { v.version : v \in { w \in db.versions :
                                            w.approval_id = approval_id } }
          current == IF mine = {} THEN 0
                     ELSE CHOOSE m \in mine : \A x \in mine : x <= m
      IN [db EXCEPT !.versions = db.versions \cup
             { [approval_id |-> approval_id, version |-> current + 1,
                snapshot |-> build_approval_snapshot(db, approval_id),
                changes |-> change_type, actor |-> actor] }]

\* the uploads that carry a file name
valid_files(uploads) == SelectSeq(uploads, LAMBDA name : name # <<>>)

RECURSIVE store_files(_, _, _)
\* INSERT INTO approval_files, one row per upload
store_files(db, approval_id, uploads) ==
    IF uploads = <<>> THEN db
    ELSE store_files(
           [db EXCEPT !.files = db.files \cup
                         { [id |-> db.next_file_id, approval_id |-> approval_id,
                            orig_name |-> Head(uploads)] },
                      !.next_file_id = db.next_file_id + 1],
           approval_id, Tail(uploads))

(***************************************************************************)
(* Handlers.  Each returns the database after the call and the response.   *)
(***************************************************************************)
Reply(db, resp) == [db |-> db, resp |-> resp]

\* json.loads(approver_chain) with the not-a-list and parse-error fallbacks
parse_chain(payload) ==
    IF payload.kind = "list" THEN payload.items ELSE <<>>

\* publish_memo form value -> 0/1
publish_flag(publish_memo) ==
    IF publish_memo \in {"1", "true", "on", "yes"} THEN 1 ELSE 0

\* bug: enumerate(chain, 1), the first step gets order 1
chain_steps_from_one(chain, approval_id, first_id) ==
    { [id |-> first_id + (k - 1), approval_id |-> approval_id,
       step_order |-> k, approver_name |-> create_save_name(chain[k]),
       status |-> "pending", comment |-> NULL] : k \in DOMAIN chain }

\* the approval_steps rows inserted for a chain (lines 716-736)
chain_steps(chain, approval_id, first_id) ==
    { [id |-> first_id + (k - 1), approval_id |-> approval_id,
       step_order |-> k - 1, approver_name |-> create_save_name(chain[k]),
       status |-> "pending", comment |-> NULL] : k \in DOMAIN chain }

\* POST /approvals/create
create_approval(db, caller, requester, subject, view_scope, payload, publish_memo, uploads) ==
    IF caller.user = <<>> THEN Reply(db, "login")
    ELSE IF ~can_use_approvals(caller.role, caller.permissions)
    THEN Reply(db, "permission_denied")
    ELSE
      LET chain == parse_chain(payload)
      IN IF chain = <<>> THEN Reply(db, "no_approver")
         ELSE
           LET approval_id == Len(db.approvals) + 1
               row == [status |-> "pending", current_step |-> 0,
                       requester |-> requester, subject |-> subject,
                       view_scope |-> normalize_scope(view_scope),
                       publish_memo |-> publish_flag(publish_memo)]
               db1 == [db EXCEPT !.approvals = Append(db.approvals, row),
                                 !.steps = db.steps \cup
                                     chain_steps(chain, approval_id,
                                                 db.next_step_id),
                                 !.next_step_id = db.next_step_id + Len(chain)]
               db2 == log_action(db1, approval_id, requester, "submit", <<>>, 0)
               db3 == store_files(db2, approval_id, valid_files(uploads))
           IN Reply(record_version(db3, approval_id, requester, "submit"), "ok")

AckDefault == <<"a", "c", "k", "e", "d">>

\* bug: every action needs a comment
comment_missing_any_action(action, comment_in) == strip(comment_in) = <<>>

\* lines 1333-1334: approve/reject need a comment, ack does not
comment_missing(action, comment_in) ==
    action # "ack" /\ strip(comment_in) = <<>>

\* line 1338: the comment that is stored
stored_comment(action, comment_in) ==
    IF strip(comment_in) # <<>> THEN strip(comment_in)
    ELSE IF action = "ack" THEN AckDefault ELSE <<>>

\* bug: the admin role bypasses the approver check
is_step_approver_or_admin(caller, approver_name) ==
    \/ caller.role = "admin"
    \/ normi(approver_name) \in user_identity_keys(caller.user)

\* lines 1377-1378: the caller may act as the step's named approver
is_step_approver(caller, approver_name) ==
    normi(approver_name) \in user_identity_keys(caller.user)

\* bug: only approve counts as approved
decision_status_approve_only(action) ==
    IF action = "approve" THEN "approved" ELSE "rejected"

\* lines 1382-1385: ack counts as approved
decision_status(action) ==
    IF action \in {"approve", "ack"} THEN "approved" ELSE "rejected"

\* bug: the decision UPDATE writes the comment but not the status
set_step_decision_comment_only(rows, step_id, new_status, comment) ==
    { IF s.id = step_id THEN [s EXCEPT !.comment = comment] ELSE s : s \in rows }

\* lines 1390-1395: UPDATE approval_steps SET status, decided_at, comment WHERE id
set_step_decision(rows, step_id, new_status, comment) ==
    { IF s.id = step_id
      THEN [s EXCEPT !.status = new_status, !.comment = comment]
      ELSE s : s \in rows }

\* bug: the status is written but the pointer is left where it was
resolve_request_keep_pointer(rows, approval_id, status) ==
    [rows EXCEPT ![approval_id].status = status]

\* lines 1406-1409 and 1429-1432: the request is resolved
resolve_request(rows, approval_id, status) ==
    [rows EXCEPT ![approval_id].status = status,
                 ![approval_id].current_step = -1]

\* bug: off-by-one in the completion test
chain_finished_off_by_one(next_step, total_steps) == next_step > total_steps

\* line 1427: the step just decided was the last one
chain_finished(next_step, total_steps) == next_step >= total_steps

\* variant: the memo keeps the request's scope as its visibility
publish_memo_row_same_scope(db, approval_id, view_scope_v, publish_memo_flag) ==
    IF publish_memo_flag = 1
    THEN [db EXCEPT !.memos = Append(db.memos,
             [source_id |-> approval_id,
              visibility |-> normalize_scope(view_scope_v)])]
    ELSE db

\* lines 1436-1458: the memo published on completion
publish_memo_row(db, approval_id, view_scope_v, publish_memo_flag) ==
    LET visibility == IF normalize_scope(view_scope_v) = "top_secret"
                      THEN "restricted" ELSE normalize_scope(view_scope_v)
    IN IF publish_memo_flag = 1
       THEN [db EXCEPT !.memos = Append(db.memos,
                [source_id |-> approval_id, visibility |-> visibility])]
       ELSE db

\* do_action, lines 1381-1472: the writes, from the values read before
do_action_write(db, approval_id, user, action, comment, cur_step, step_id, view_scope_v, publish_memo_flag) ==
    IF action \notin {"approve", "ack", "reject"}
    THEN Reply(db, "unsupported_action")
    ELSE IF step_id \notin { s.id : s \in db.steps }
    THEN Reply(db, "error_500")
    ELSE
      LET db1 == [db EXCEPT !.steps = set_step_decision(db.steps, step_id,
                                         decision_status(action), comment)]
          db2 == log_action(db1, approval_id, user, action, comment, step_id)
          total_steps == Cardinality(steps_of(db2, approval_id))
          next_step == cur_step + 1
      IN IF action = "reject"
         THEN Reply([db2 EXCEPT !.approvals =
                        resolve_request(db2.approvals, approval_id, "rejected")],
                    "ok")
         ELSE IF chain_finished(next_step, total_steps)
         THEN Reply(publish_memo_row(
                      [db2 EXCEPT !.approvals =
                          resolve_request(db2.approvals, approval_id, "approved")],
                      approval_id, view_scope_v, publish_memo_flag), "ok")
         ELSE Reply([db2 EXCEPT !.approvals[approval_id].current_step = next_step],
                    "ok")

\* bug: the lookup takes any pending step at or after the pointer
active_steps_from_pointer(db, approval_id, cur_step) ==
    { s \in steps_of(db, approval_id) :
        s.step_order >= cur_step /\ s.status = "pending" }

\* the pending step at the request's current_step (lines 1358-1367)
active_steps(db, approval_id, cur_step) ==
    { s \in steps_of(db, approval_id) :
        s.step_order = cur_step /\ s.status = "pending" }

first_row(rows) == CHOOSE s \in rows : \A t \in rows : s.id <= t.id

\* a handler's local variables between its reads and its writes
Idle == [pc |-> "idle", approval_id |-> 0, user |-> <<>>, action |-> "",
         comment |-> <<>>, cur_step |-> 0, step_id |-> 0,
         view_scope_v |-> "", publish_memo_flag |-> 0]

\* do_action, lines 1325-1379: the checks and the reads, no write
do_action_read(db, approval_id, caller, action, comment_in) ==
    LET stop(resp) == [resp |-> resp, locals |-> Idle]
    IN
    IF caller.user = <<>> THEN stop("login")
    ELSE IF ~can_use_approvals(caller.role, caller.permissions)
    THEN stop("permission_denied")
    ELSE IF comment_missing(action, comment_in) THEN stop("comment_required")
    ELSE IF ~exists_approval(db, approval_id) THEN stop("not_found")
    ELSE
      LET row == db.approvals[approval_id]
          cur_step == row.current_step
          cand == active_steps(db, approval_id, cur_step)
      IN IF cand = {} THEN stop("no_active_step")
         ELSE IF ~is_step_approver(caller, first_row(cand).approver_name)
         THEN stop("not_your_step")
         ELSE [resp |-> "read",
               locals |-> [pc |-> "write", approval_id |-> approval_id,
                           user |-> caller.user, action |-> action,
                           comment |-> stored_comment(action, comment_in),
                           cur_step |-> cur_step,
                           step_id |-> first_row(cand).id,
                           view_scope_v |-> row.view_scope,
                           publish_memo_flag |-> row.publish_memo]]

\* the writes of do_action from the locals of an earlier read
do_action_commit(db, l) ==
    do_action_write(db, l.approval_id, l.user, l.action, l.comment, l.cur_step,
                    l.step_id, l.view_scope_v, l.publish_memo_flag)

\* POST /approvals/{id}/action
do_action(db, approval_id, caller, action, comment_in) ==
    LET rd == do_action_read(db, approval_id, caller, action, comment_in)
    IN IF rd.resp # "read" THEN Reply(db, rd.resp)
       ELSE do_action_commit(db, rd.locals)

\* the approver_name stored by add_approver_step (lines 1517-1524)
add_save_name(disp) ==
    LET emp == find_employee_by_display(disp)
    IN IF emp # 0
       THEN IF Employees[emp].name # <<>> THEN Employees[emp].name
            ELSE IF Employees[emp].english_name # <<>>
                 THEN Employees[emp].english_name
                 ELSE disp
       ELSE disp

\* bug: MIN(step_order) instead of MAX(step_order)
max_order_lowest(rows) == CHOOSE m \in { s.step_order : s \in rows } :
                              \A s \in rows : m <= s.step_order

max_order(rows) == CHOOSE m \in { s.step_order : s \in rows } :
                       \A s \in rows : s.step_order <= m

\* bug: only the steps still pending are compared
step_names_n_pending_only(rows) ==
    { normi(x.approver_name) :
        x \in { y \in rows : y.approver_name # <<>> /\ y.status = "pending" } }

\* lines 1540-1544: normalised names of the request's steps
step_names_n(rows) ==
    { normi(x.approver_name) : x \in { y \in rows : y.approver_name # <<>> } }

\* POST /approvals/{id}/steps/add
add_approver_step(db, approval_id, caller, display_name) ==
    LET disp == strip(display_name)
        save_name == add_save_name(disp)
        rows == steps_of(db, approval_id)
        names_n == step_names_n(rows)
        next_order == IF rows = {} THEN 0 ELSE max_order(rows) + 1
        step_id == db.next_step_id
        db1 == [db EXCEPT !.steps = db.steps \cup
                    { [id |-> step_id, approval_id |-> approval_id,
                       step_order |-> next_order, approver_name |-> save_name,
                       status |-> "pending", comment |-> NULL] },
                          !.next_step_id = db.next_step_id + 1]
        db2 == log_action(db1, approval_id, caller.user, "add_approver",
                          save_name, step_id)
    IN
    IF caller.user = <<>> THEN Reply(db, "login")
    ELSE IF ~can_use_approvals(caller.role, caller.permissions)
    THEN Reply(db, "permission_denied")
    ELSE IF ~is_requester_or_admin(db, approval_id, caller.user, caller.role)
    THEN Reply(db, "only_requester_or_admin")
    ELSE IF disp = <<>> THEN Reply(db, "invalid_display_name")
    ELSE IF ~exists_approval(db, approval_id) THEN Reply(db, "not_found")
    ELSE IF db.approvals[approval_id].status # "pending"
    THEN Reply(db, "approval_not_pending")
    ELSE IF normi(save_name) \in names_n THEN Reply(db, "duplicated_name")
    ELSE Reply(renumber_steps(db2, approval_id), "ok")

SHIFT == 100000

occurrences(seq, x) == Cardinality({ i \in DOMAIN seq : seq[i] = x })

\* UPDATE approval_steps SET step_order=? WHERE id=? AND approval_id=?
\* under the unique index ux_steps_order(approval_id, step_order)
set_order(rows, approval_id, sid, order) ==
    IF /\ \E u \in rows : u.id = sid /\ u.approval_id = approval_id
       /\ \E t \in rows : t.approval_id = approval_id /\ t.id # sid
                          /\ t.step_order = order
    THEN [ok |-> FALSE, rows |-> rows]
    ELSE [ok |-> TRUE,
          rows |-> { IF t.id = sid /\ t.approval_id = approval_id
                     THEN [t EXCEPT !.step_order = order] ELSE t : t \in rows }]

\* variant: the supplied sequence is not written
write_back_none(rows, approval_id, ids, next_order) == [ok |-> TRUE, rows |-> rows]

RECURSIVE write_back(_, _, _, _)
\* lines 1643-1649: assign cur_step+1, cur_step+2, ... in the supplied order
write_back(rows, approval_id, ids, next_order) ==
    IF ids = <<>> THEN [ok |-> TRUE, rows |-> rows]
    ELSE LET r == set_order(rows, approval_id, Head(ids), next_order)
         IN IF ~r.ok THEN r
            ELSE write_back(r.rows, approval_id, Tail(ids), next_order + 1)

\* lines 1638-1641: move the eligible rows to the high band
shift_away(rows, approval_id, allowed_ids) ==
    { IF t.id \in allowed_ids /\ t.approval_id = approval_id
      THEN [t EXCEPT !.step_order = t.step_order + SHIFT] ELSE t : t \in rows }

\* bug: every step of the request counts as eligible
eligible_ids_whole_chain(db, approval_id, cur_step) ==
    { s.id : s \in steps_of(db, approval_id) }

\* lines 1625-1631: ids of the steps that may be reordered
eligible_ids(db, approval_id, cur_step) ==
    { s.id : s \in { t \in steps_of(db, approval_id) :
                        t.status = "pending" /\ t.step_order > cur_step } }

\* line 1632: sorted(new_order_ids) == sorted(allowed_ids)
same_ids(new_order_ids, allowed_ids) ==
    /\ Len(new_order_ids) = Cardinality(allowed_ids)
    /\ \A x \in allowed_ids : occurrences(new_order_ids, x) = 1

\* POST /approvals/{id}/steps/reorder
reorder_pending_steps(db, approval_id, caller, body) ==
    IF caller.user = <<>> THEN Reply(db, "login")
    ELSE IF ~can_use_approvals(caller.role, caller.permissions)
    THEN Reply(db, "permission_denied")
    ELSE IF ~is_requester_or_admin(db, approval_id, caller.user, caller.role)
    THEN Reply(db, "only_requester_or_admin")
    ELSE IF body.kind # "json" THEN Reply(db, "bad_json")
    ELSE IF ~exists_approval(db, approval_id) THEN Reply(db, "not_found")
    ELSE IF db.approvals[approval_id].status # "pending"
    THEN Reply(db, "approval_not_pending")
    ELSE
      LET new_order_ids == body.order
          cur_step == db.approvals[approval_id].current_step
          allowed_ids == eligible_ids(db, approval_id, cur_step)
          moved == shift_away(db.steps, approval_id, allowed_ids)
          w == write_back(moved, approval_id, new_order_ids, cur_step + 1)
          db1 == log_action([db EXCEPT !.steps = w.rows], approval_id,
                            caller.user, "reorder_steps", <<>>, 0)
      IN IF ~same_ids(new_order_ids, allowed_ids) THEN Reply(db, "invalid_ids")
         ELSE IF ~w.ok
         THEN Reply(renumber_steps(db, approval_id), "integrity_conflict")
         ELSE Reply(renumber_steps(db1, approval_id), "ok")

\* bug: off-by-one, the active step may be deleted too
deletable_from_pointer(s, cur_step) ==
    s.status = "pending" /\ s.step_order >= cur_step

\* variant: any step may be deleted
deletable_any(s, cur_step) == TRUE

\* line 2124: the step may be deleted
deletable(s, cur_step) == s.status = "pending" /\ s.step_order > cur_step

\* POST|DELETE /approvals/{id}/steps/{step_id}/delete
delete_approver_step(db, approval_id, caller, step_id) ==
    IF caller.user = <<>> THEN Reply(db, "login")
    ELSE IF ~can_use_approvals(caller.role, caller.permissions)
    THEN Reply(db, "permission_denied")
    ELSE IF ~is_requester_or_admin(db, approval_id, caller.user, caller.role)
    THEN Reply(db, "only_requester_or_admin")
    ELSE IF ~exists_approval(db, approval_id) THEN Reply(db, "not_found")
    ELSE IF db.approvals[approval_id].status # "pending"
    THEN Reply(db, "approval_not_pending")
    ELSE
      LET cur_step == db.approvals[approval_id].current_step
          found == { s \in steps_of(db, approval_id) : s.id = step_id }
      IN IF found = {} THEN Reply(db, "step_not_found")
         ELSE
           LET s == CHOOSE x \in found : TRUE
               kept == SelectSeq(db.actions,
                          LAMBDA a : ~(a.approval_id = approval_id
                                       /\ a.step_id = step_id))
               db1 == [db EXCEPT !.actions = kept,
                                 !.steps = { t \in db.steps : t.id # step_id }]
               db2 == log_action(db1, approval_id, caller.user, "delete_step",
                                 s.approver_name, step_id)
           IN IF ~deletable(s, cur_step)
              THEN Reply(db, "cannot_delete_this_step")
              ELSE Reply(renumber_steps(db2, approval_id), "ok")

\* variant: only the requester counts as involved
user_involved_requester_only(db, approval_id, user) ==
    /\ exists_approval(db, approval_id)
    /\ normi(db.approvals[approval_id].requester) \in user_identity_keys(user)

\* _user_involved_in_approval(approval_id, user)
user_involved_in_approval(db, approval_id, user) ==
    LET keys == user_identity_keys(user)
    IN /\ exists_approval(db, approval_id)
       /\ \/ normi(db.approvals[approval_id].requester) \in keys
          \/ \E s \in steps_of(db, approval_id) :
                normi(s.approver_name) \in keys

\* can_view_approval(approval_id, user, role, permissions)
can_view_approval(db, approval_id, user, role, permissions) ==
    IF role = "admin" THEN TRUE
    ELSE IF ~can_use_approvals(role, permissions) THEN FALSE
    ELSE IF ~exists_approval(db, approval_id) THEN FALSE
    ELSE IF db.approvals[approval_id].view_scope = "org" THEN TRUE
    ELSE user_involved_in_approval(db, approval_id, user)

\* GET /approvals/{id}: the view gate, then the renumbering it triggers
detail_page(db, approval_id, caller) ==
    IF caller.user = <<>> THEN Reply(db, "login")
    ELSE IF ~can_use_approvals(caller.role, caller.permissions)
    THEN Reply(db, "permission_denied")
    ELSE IF ~can_view_approval(db, approval_id, caller.user, caller.role,
                              caller.permissions)
    THEN Reply(db, "forbidden")
    ELSE IF ~exists_approval(db, approval_id)
    THEN Reply(renumber_steps(db, approval_id), "not_found")
    ELSE Reply(renumber_steps(db, approval_id), "ok")

\* lines 1098-1109: the fields an edit would change
edit_changes(row, subject, view_scope, publish_memo) ==
    (IF row.subject # subject THEN {"subject"} ELSE {})
      \cup (IF row.view_scope # normalize_scope(view_scope)
            THEN {"view_scope"} ELSE {})
      \cup (IF row.publish_memo # publish_flag(publish_memo)
            THEN {"publish_memo"} ELSE {})

\* variant: only a rejection closes a request for edits
editable_until_rejected(row) == row.status # "rejected"

\* lines 1083-1087: content and attachments change only while pending
editable(row) == row.status = "pending"

\* lines 1089-1090: who may edit the content and attachments
may_edit_content(row, caller) ==
    caller.role = "admin" \/ row.requester = caller.user

\* POST /approvals/{id}/edit
update_approval_details(db, approval_id, caller, subject, view_scope, publish_memo) ==
    IF caller.user = <<>> THEN Reply(db, "login")
    ELSE IF ~can_use_approvals(caller.role, caller.permissions)
    THEN Reply(db, "permission_denied")
    ELSE IF ~exists_approval(db, approval_id) THEN Reply(db, "not_found")
    ELSE
      LET row == db.approvals[approval_id]
          db1 == [db EXCEPT !.approvals[approval_id] =
                     [row EXCEPT !.subject = subject,
                                 !.view_scope = normalize_scope(view_scope),
                                 !.publish_memo = publish_flag(publish_memo)]]
          db2 == log_action(db1, approval_id, caller.user, "update_content",
                            <<>>, 0)
      IN IF ~editable(row) THEN Reply(db, "not_editable")
         ELSE IF ~may_edit_content(row, caller) THEN Reply(db, "forbidden")
         ELSE IF edit_changes(row, subject, view_scope, publish_memo) = {}
         THEN Reply(db, "no_change")
         ELSE Reply(record_version(db2, approval_id, caller.user,
                                   "update_content"), "ok")

\* POST /approvals/{id}/attachments
add_approval_attachments(db, approval_id, caller, uploads) ==
    IF caller.user = <<>> THEN Reply(db, "login")
    ELSE IF ~can_use_approvals(caller.role, caller.permissions)
    THEN Reply(db, "permission_denied")
    ELSE IF valid_files(uploads) = <<>> THEN Reply(db, "no_files")
    ELSE IF ~exists_approval(db, approval_id) THEN Reply(db, "not_found")
    ELSE
      LET row == db.approvals[approval_id]
          db1 == store_files(db, approval_id, valid_files(uploads))
          db2 == log_action(db1, approval_id, caller.user, "add_attachment",
                            <<>>, 0)
      IN IF ~editable(row) THEN Reply(db, "not_editable")
         ELSE IF ~may_edit_content(row, caller) THEN Reply(db, "forbidden")
         ELSE Reply(record_version(db2, approval_id, caller.user,
                                   "add_attachment"), "ok")

\* POST /approvals/{id}/attachments/{file_id}/delete
delete_approval_attachment(db, approval_id, caller, file_id) ==
    IF caller.user = <<>> THEN Reply(db, "login")
    ELSE IF ~can_use_approvals(caller.role, caller.permissions)
    THEN Reply(db, "permission_denied")
    ELSE IF ~exists_approval(db, approval_id) THEN Reply(db, "not_found")
    ELSE
      LET row == db.approvals[approval_id]
          found == { f \in files_of(db, approval_id) : f.id = file_id }
          db1 == [db EXCEPT !.files = db.files \ found]
          db2 == log_action(db1, approval_id, caller.user, "delete_attachment",
                            <<>>, 0)
      IN IF ~editable(row) THEN Reply(db, "not_editable")
         ELSE IF ~may_edit_content(row, caller) THEN Reply(db, "forbidden")
         ELSE IF found = {} THEN Reply(db, "file_not_found")
         ELSE Reply(record_version(db2, approval_id, caller.user,
                                   "delete_attachment"), "ok")

\* GET /approvals/{id}/file/{file_id}: the file is written before its row is
\* inserted and removed only with it, so a row found is a file served
download_file(db, approval_id, caller, file_id) ==
    IF caller.user = <<>> THEN [resp |-> "login", orig_name |-> <<>>]
    ELSE IF ~can_use_approvals(caller.role, caller.permissions)
    THEN [resp |-> "permission_denied", orig_name |-> <<>>]
    ELSE
      LET found == { f \in db.files :
                       f.id = file_id /\ f.approval_id = approval_id }
      IN IF found = {} THEN [resp |-> "file_not_found", orig_name |-> <<>>]
         ELSE [resp |-> "file",
               orig_name |-> (CHOOSE f \in found : TRUE).orig_name]

\* x LIKE '%q%' COLLATE NOCASE
like(text, q) ==
    \E k \in 0..(Len(text) - Len(q)) :
        \A j \in 1..Len(q) :
            casefold_char(text[k + j]) = casefold_char(q[j])

\* limit = max(1, min(int(limit or 50), 200))
search_limit(limit) ==
    LET n == IF limit = 0 THEN 50 ELSE limit
        m == IF n < 200 THEN n ELSE 200
    IN IF m > 1 THEN m ELSE 1

\* lines 1855-1881: the WHERE clause; submitted_at grows with the request id
search_where(db, id, user, q, scope, status, date_from, date_to) ==
    LET a == db.approvals[id]
    IN /\ status \in {"pending", "approved", "rejected"} => a.status = status
       /\ date_from # 0 => id >= date_from
       /\ date_to # 0 => id <= date_to
       /\ strip(q) # <<>> =>
             \/ like(a.subject, strip(q))
             \/ like(a.requester, strip(q))
             \/ \E s2 \in steps_of(db, id) : like(s2.approver_name, strip(q))
       /\ scope = "mine" => a.requester = user

RECURSIVE newest_first(_)
\* ORDER BY a.submitted_at DESC
newest_first(ids) ==
    IF ids = {} THEN <<>>
    ELSE LET top == CHOOSE x \in ids : \A y \in ids : y <= x
         IN <<top>> \o newest_first(ids \ {top})

\* lines 1905-1911: scope=todo keeps the caller's own pending step only
search_todo(db, id, keys) ==
    /\ db.approvals[id].status = "pending"
    /\ \E s \in steps_of(db, id) :
          /\ s.step_order = db.approvals[id].current_step
          /\ s.status = "pending"
          /\ normi(s.approver_name) \in keys

\* variant: no row is held back
search_shows_all(db, id, caller) == TRUE

\* lines 1913-1920: a top_secret request is shown only to who may view it
search_shows(db, id, caller) ==
    \/ normalize_scope(db.approvals[id].view_scope) # "top_secret"
    \/ can_view_approval(db, id, caller.user, caller.role, caller.permissions)

\* GET /approvals/api/search: the rows returned, newest first
api_search(db, caller, q, scope, status, date_from, date_to, limit) ==
    IF caller.user = <<>> THEN [resp |-> "login", rows |-> <<>>]
    ELSE IF ~can_use_approvals(caller.role, caller.permissions)
    THEN [resp |-> "permission_denied", rows |-> <<>>]
    ELSE
      LET keys == user_identity_keys(caller.user)
          hits == newest_first({ id \in DOMAIN db.approvals :
                     search_where(db, id, caller.user, q, scope, status,
                                  date_from, date_to) })
          rows == SubSeq(hits, 1, IF Len(hits) < search_limit(limit)
                                  THEN Len(hits) ELSE search_limit(limit))
          kept == SelectSeq(rows, LAMBDA id :
                     /\ scope = "todo" => search_todo(db, id, keys)
                     /\ search_shows(db, id, caller))
      IN [resp |-> "ok",
          rows |-> [k \in DOMAIN kept |->
                       [id |-> kept[k],
                        can_view |-> can_view_approval(db, kept[k], caller.user,
                                         caller.role, caller.permissions)]]]

(***************************************************************************)
(* The chain handlers in the pieces other connections can come between:    *)
(* the SELECTs run outside a transaction, the transaction starts at the    *)
(* first write and ends at commit, and _renumber_steps runs afterwards on  *)
(* a connection of its own.                                                *)
(***************************************************************************)
\* _renumber_all_steps(), run by every ensure_db() call (lines 391-395)
renumber_all_steps(db) ==
    LET idx(s) == Cardinality({ t \in steps_of(db, s.approval_id) :
                       \/ t.step_order < s.step_order
                       \/ (t.step_order = s.step_order /\ t.id < s.id) })
    IN [db EXCEPT !.steps = { [s EXCEPT !.step_order = idx(s)] : s \in db.steps }]

\* add_approver_step, lines 1498-1555: the checks and the reads
add_step_read(db, approval_id, caller, display_name) ==
    LET stop(resp) == [resp |-> resp, locals |-> Idle]
        disp == strip(display_name)
        save_name == add_save_name(disp)
        rows == steps_of(db, approval_id)
    IN
    IF caller.user = <<>> THEN stop("login")
    ELSE IF ~can_use_approvals(caller.role, caller.permissions)
    THEN stop("permission_denied")
    ELSE IF ~is_requester_or_admin(db, approval_id, caller.user, caller.role)
    THEN stop("only_requester_or_admin")
    ELSE IF disp = <<>> THEN stop("invalid_display_name")
    ELSE IF ~exists_approval(db, approval_id) THEN stop("not_found")
    ELSE IF db.approvals[approval_id].status # "pending"
    THEN stop("approval_not_pending")
    ELSE IF normi(save_name) \in step_names_n(rows) THEN stop("duplicated_name")
    ELSE [resp |-> "read",
          locals |-> [pc |-> "add_write", approval_id |-> approval_id,
                      user |-> caller.user, save_name |-> save_name,
                      next_order |-> IF rows = {} THEN 0
                                     ELSE max_order(rows) + 1]]

\* add_approver_step, lines 1557-1578: the two INSERTs and the commit; the
\* unique index refuses a step_order that is taken and nothing catches it
add_step_write(db, l) ==
    LET step_id == db.next_step_id
        db1 == [db EXCEPT !.steps = db.steps \cup
                    { [id |-> step_id, approval_id |-> l.approval_id,
                       step_order |-> l.next_order,
                       approver_name |-> l.save_name,
                       status |-> "pending", comment |-> NULL] },
                          !.next_step_id = db.next_step_id + 1]
    IN IF \E t \in steps_of(db, l.approval_id) : t.step_order = l.next_order
       THEN Reply(db, "error_500")
       ELSE Reply(log_action(db1, l.approval_id, l.user, "add_approver",
                             l.save_name, step_id), "ok")

\* delete_approver_step, lines 2068-2130: the checks and the reads
delete_step_read(db, approval_id, caller, step_id) ==
    LET stop(resp) == [resp |-> resp, locals |-> Idle]
        found == { s \in steps_of(db, approval_id) : s.id = step_id }
    IN
    IF caller.user = <<>> THEN stop("login")
    ELSE IF ~can_use_approvals(caller.role, caller.permissions)
    THEN stop("permission_denied")
    ELSE IF ~is_requester_or_admin(db, approval_id, caller.user, caller.role)
    THEN stop("only_requester_or_admin")
    ELSE IF ~exists_approval(db, approval_id) THEN stop("not_found")
    ELSE IF db.approvals[approval_id].status # "pending"
    THEN stop("approval_not_pending")
    ELSE IF found = {} THEN stop("step_not_found")
    ELSE IF ~deletable(CHOOSE x \in found : TRUE,
                       db.approvals[approval_id].current_step)
    THEN stop("cannot_delete_this_step")
    ELSE [resp |-> "read",
          locals |-> [pc |-> "delete_write", approval_id |-> approval_id,
                      user |-> caller.user, step_id |-> step_id,
                      approver_name |-> (CHOOSE x \in found : TRUE).approver_name]]

\* delete_approver_step, lines 2132-2167: the transaction
delete_step_write(db, l) ==
    LET kept == SelectSeq(db.actions,
                   LAMBDA a : ~(a.approval_id = l.approval_id
                                /\ a.step_id = l.step_id))
        db1 == [db EXCEPT !.actions = kept,
                          !.steps = { t \in db.steps : t.id # l.step_id }]
    IN Reply(log_action(db1, l.approval_id, l.user, "delete_step",
                        l.approver_name, l.step_id), "ok")

\* reorder_pending_steps, lines 1593-1633: the checks and the reads
reorder_read(db, approval_id, caller, body) ==
    LET stop(resp) == [resp |-> resp, locals |-> Idle]
    IN
    IF caller.user = <<>> THEN stop("login")
    ELSE IF ~can_use_approvals(caller.role, caller.permissions)
    THEN stop("permission_denied")
    ELSE IF ~is_requester_or_admin(db, approval_id, caller.user, caller.role)
    THEN stop("only_requester_or_admin")
    ELSE IF body.kind # "json" THEN stop("bad_json")
    ELSE IF ~exists_approval(db, approval_id) THEN stop("not_found")
    ELSE IF db.approvals[approval_id].status # "pending"
    THEN stop("approval_not_pending")
    ELSE
      LET cur_step == db.approvals[approval_id].current_step
          allowed_ids == eligible_ids(db, approval_id, cur_step)
      IN IF ~same_ids(body.order, allowed_ids) THEN stop("invalid_ids")
         ELSE [resp |-> "read",
               locals |-> [pc |-> "reorder_write", approval_id |-> approval_id,
                           user |-> caller.user, new_order_ids |-> body.order,
                           allowed_ids |-> allowed_ids, cur_step |-> cur_step]]

\* lines 1636-1649: move away and write back, on the table as it is now
reorder_try(db, l) ==
    write_back(shift_away(db.steps, l.approval_id, l.allowed_ids),
               l.approval_id, l.new_order_ids, l.cur_step + 1)

\* reorder_pending_steps, lines 1635-1669: the transaction, or on an
\* IntegrityError the rollback, the renumbering and the 409
reorder_write(db, l) ==
    LET w == reorder_try(db, l)
    IN IF ~w.ok
       THEN Reply(renumber_steps(db, l.approval_id), "integrity_conflict")
       ELSE Reply(log_action([db EXCEPT !.steps = w.rows], l.approval_id,
                             l.user, "reorder_steps", <<>>, 0), "ok")

(***************************************************************************)
(* Mail.  The notifications are sent after the handler's commits.          *)
(***************************************************************************)
HasAt(mail) == \E k \in DOMAIN mail : mail[k] = "@"

\* lines 717-721 and 1517-1521: the approver_email stored with a step; the
\* directory is fixed, so it is the mail of the person the stored name names
save_mail(disp) ==
    LET emp == find_employee_by_display(disp)
    IN IF emp # 0 /\ HasAt(strip(Employees[emp].email))
       THEN strip(Employees[emp].email) ELSE <<>>

\* email_by_name(any_name)
email_by_name(any_name) ==
    LET found == find_employee_by_display(any_name)
    IN IF found = 0 THEN <<>>
       ELSE IF HasAt(strip(Employees[found].email))
            THEN strip(Employees[found].email) ELSE <<>>

\* send_mail_safe(to_list, subject, body): smtp is the state of the transport
\* ("unset": SMTP_HOST/USER/PASS missing, "up", "down": smtplib raises)
send_mail_safe(to_list, smtp) ==
    IF SelectSeq(to_list, LAMBDA t : t # <<>> /\ HasAt(t)) = <<>>
    THEN "skipped"
    ELSE IF smtp = "unset" THEN "printed"
    ELSE IF smtp = "up" THEN "sent"
    ELSE "raised"

\* [mail] if mail else []
mail_list(mail) == IF mail = <<>> THEN <<>> ELSE <<mail>>

\* the step of a request at a step_order, as a set of approver mails
mail_of_step_at(db, approval_id, step_order) ==
    { save_mail(s.approver_name) :
        s \in { t \in steps_of(db, approval_id) : t.step_order = step_order } }

\* an exception that leaves the handler is answered by the application's
\* handler for unhandled exceptions with status 500
reply_after_mail(r, sent) ==
    [db |-> r.db, resp |-> IF sent = "raised" THEN "error_500" ELSE r.resp,
     mail |-> sent]

\* create_approval with the notification of the first approver (lines 797-814)
create_approval_and_notify(db, caller, requester, subject, view_scope, payload, publish_memo, uploads, smtp) ==
    LET r == create_approval(db, caller, requester, subject, view_scope,
                             payload, publish_memo, uploads)
        first == mail_of_step_at(r.db, Len(r.db.approvals), 0)
    IN IF r.resp # "ok" \/ first = {} THEN reply_after_mail(r, "none")
       ELSE reply_after_mail(r,
              send_mail_safe(mail_list(CHOOSE m \in first : TRUE), smtp))

\* do_action with its notification: the requester after a rejection (lines
\* 1411-1416) or the completion (1460-1465), else the next approver (1473-1485)
do_action_and_notify(db, approval_id, caller, action, comment_in, smtp) ==
    LET r == do_action(db, approval_id, caller, action, comment_in)
    IN IF r.resp # "ok" THEN reply_after_mail(r, "none")
       ELSE
         LET row == r.db.approvals[approval_id]
             nx == mail_of_step_at(r.db, approval_id, row.current_step)
         IN IF row.status # "pending"
            THEN reply_after_mail(r,
                   send_mail_safe(mail_list(email_by_name(row.requester)), smtp))
            ELSE IF nx = {} THEN reply_after_mail(r, "none")
            ELSE reply_after_mail(r,
                   send_mail_safe(mail_list(CHOOSE m \in nx : TRUE), smtp))

(***************************************************************************)
(* Inputs of the calls.                                                    *)
(***************************************************************************)
Amy == [user |-> <<"q">>, role |-> "user", permissions |-> "{approvals:true}"]
Cat == [user |-> <<"c">>, role |-> "user", permissions |-> "{approvals:true}"]
Root == [user |-> <<"r">>, role |-> "admin", permissions |-> ""]
Guest == [user |-> <<"q">>, role |-> "user", permissions |-> "{}"]
Anon == [user |-> <<>>, role |-> "user", permissions |-> "{approvals:true}"]

Callers == {Amy, Cat, Root, Guest, Anon}
Requesters == { <<"c">> }
ChainLists == { <<>>,
                <<(<<"a">>)>>,
                << <<"C", " ">>, <<"C", " ">> >>,
                << <<"C", " ">>, <<"a">>, <<" ", "b">> >> }
AddNames == { <<"w">>, <<" ", "B">>, <<" ">> }
Comments == { <<>>, <<" ">>, <<" ", "o">> }
ActionNames == {"approve", "reject", "ack", "hold"}
ScopeInputs == {"top_secret"}
PublishInputs == {"1"}
Subjects == { <<"s">> }
NoUploads == { <<>> }
\* ids a call may name: every existing row and one id that does not exist
ApprovalIds == 1..(Len(approvals) + 1)
StepIds == 1..next_step_id

Payloads == { [kind |-> "list", items |-> c] : c \in ChainLists }
            \cup { [kind |-> "not_list", items |-> <<>>],
                   [kind |-> "bad_json", items |-> <<>>] }

Orders == { <<>>, <<2>>, <<2, 3>>, <<3, 2>>, <<3, 3>> }

Bodies == { [kind |-> "json", order |-> o] : o \in Orders }
          \cup { [kind |-> "bad_json", order |-> <<>>] }

(***************************************************************************)
(* State machine: one action per handler, run to completion.               *)
(***************************************************************************)
Procs == {1, 2}

Init ==
    /\ approvals = <<>>
    /\ steps = {}
    /\ actions = <<>>
    /\ memos = <<>>
    /\ files = {}
    /\ versions = {}
    /\ next_step_id = 1
    /\ next_action_id = 1
    /\ next_file_id = 1
    /\ sess = [p \in Procs |-> Idle]

WithinBounds(db) ==
    /\ Len(db.approvals) <= MaxReq
    /\ db.next_step_id <= MaxStepId + 1
    /\ db.next_action_id <= MaxLog + 1

Commit(r) ==
    /\ WithinBounds(r.db)
    /\ approvals' = r.db.approvals
    /\ steps' = r.db.steps
    /\ actions' = r.db.actions
    /\ memos' = r.db.memos
    /\ files' = r.db.files
    /\ versions' = r.db.versions
    /\ next_step_id' = r.db.next_step_id
    /\ next_action_id' = r.db.next_action_id
    /\ next_file_id' = r.db.next_file_id

Create ==
    \E caller \in Callers, requester \in Requesters, subject \in Subjects,
       view_scope \in ScopeInputs, payload \in Payloads,
       publish_memo \in PublishInputs, uploads \in NoUploads :
        /\ Commit(create_approval(DB, caller, requester, subject, view_scope,
                                  payload, publish_memo, uploads))
        /\ UNCHANGED sess

Decide ==
    \E approval_id \in ApprovalIds, caller \in Callers,
       action \in ActionNames, comment \in Comments :
        /\ Commit(do_action(DB, approval_id, caller, action, comment))
        /\ UNCHANGED sess

AddStep ==
    \E approval_id \in ApprovalIds, caller \in Callers,
       display_name \in AddNames :
        /\ Commit(add_approver_step(DB, approval_id, caller, display_name))
        /\ UNCHANGED sess

DeleteStep ==
    \E approval_id \in ApprovalIds, caller \in Callers, step_id \in StepIds :
        /\ Commit(delete_approver_step(DB, approval_id, caller, step_id))
        /\ UNCHANGED sess

Reorder ==
    \E approval_id \in ApprovalIds, caller \in Callers, body \in Bodies :
        /\ Commit(reorder_pending_steps(DB, approval_id, caller, body))
        /\ UNCHANGED sess

Detail ==
    \E approval_id \in ApprovalIds, caller \in Callers :
        /\ Commit(detail_page(DB, approval_id, caller))
        /\ UNCHANGED sess

Next == Create \/ Decide \/ AddStep \/ DeleteStep \/ Reorder \/ Detail

Spec == Init /\ [][Next]_vars

(***************************************************************************)
(* Two server processes on the same database file.  The reads of do_action *)
(* run outside a transaction (sqlite3 opens one at the first UPDATE), the   *)
(* writes are one transaction committed when the with-block exits.          *)
(***************************************************************************)
DecideRead(p) ==
    /\ sess[p].pc = "idle"
    /\ \E approval_id \in ApprovalIds, caller \in Callers,
          action \in ActionNames, comment \in Comments :
          LET rd == do_action_read(DB, approval_id, caller, action, comment)
          IN /\ rd.resp = "read"
             /\ sess' = [sess EXCEPT ![p] = rd.locals]
    /\ UNCHANGED <<approvals, steps, actions, memos, files, versions,
                   next_step_id, next_action_id, next_file_id>>

DecideWrite(p) ==
    /\ sess[p].pc = "write"
    /\ Commit(do_action_commit(DB, sess[p]))
    /\ sess' = [sess EXCEPT ![p] = Idle]

NextConc == Create \/ (\E p \in Procs : DecideRead(p) \/ DecideWrite(p))

SpecConc == Init /\ [][NextConc]_vars

(***************************************************************************)
(* All handlers of the router on one request table, with every visibility   *)
(* scope, both announcement settings, content edits and attachments.        *)
(***************************************************************************)
MaxReqAll == 1
MaxStepIdAll == 2
MaxLogAll == 3
MaxFileId == 1

AllChains == { <<(<<"a">>)>>, <<(<<"C", " ">>)>> }
EditScopes == {"org", "top_secret"}
AllScopes == {"org", "top_secret", "secret"}
AllPublish == {"0", "1"}
Uploads == { <<>>, <<(<<>>)>>, <<(<<"f">>)>> }
FileIds == 1..next_file_id
Queries == { <<>>, <<"C">> }
SearchScopes == {"all", "todo", "mine"}
StatusFilters == {"all", "pending"}
Dates == 0..1
Limits == {1}

WithinBoundsAll(db) ==
    /\ Len(db.approvals) <= MaxReqAll
    /\ db.next_step_id <= MaxStepIdAll + 1
    /\ db.next_action_id <= MaxLogAll + 1
    /\ db.next_file_id <= MaxFileId + 1

CommitAll(r) ==
    /\ WithinBoundsAll(r.db)
    /\ approvals' = r.db.approvals
    /\ steps' = r.db.steps
    /\ actions' = r.db.actions
    /\ memos' = r.db.memos
    /\ files' = r.db.files
    /\ versions' = r.db.versions
    /\ next_step_id' = r.db.next_step_id
    /\ next_action_id' = r.db.next_action_id
    /\ next_file_id' = r.db.next_file_id
    /\ UNCHANGED sess

CreateAny ==
    \E caller \in Callers, requester \in Requesters, subject \in Subjects,
       view_scope \in AllScopes, chain \in AllChains,
       publish_memo \in AllPublish, uploads \in Uploads :
        CommitAll(create_approval(DB, caller, requester, subject, view_scope,
                                  [kind |-> "list", items |-> chain],
                                  publish_memo, uploads))

DecideAny ==
    \E approval_id \in ApprovalIds, caller \in Callers,
       action \in ActionNames, comment \in Comments :
        CommitAll(do_action(DB, approval_id, caller, action, comment))

AddStepAny ==
    \E approval_id \in ApprovalIds, caller \in Callers,
       display_name \in AddNames :
        CommitAll(add_approver_step(DB, approval_id, caller, display_name))

DeleteStepAny ==
    \E approval_id \in ApprovalIds, caller \in Callers, step_id \in StepIds :
        CommitAll(delete_approver_step(DB, approval_id, caller, step_id))

ReorderAny ==
    \E approval_id \in ApprovalIds, caller \in Callers, body \in Bodies :
        CommitAll(reorder_pending_steps(DB, approval_id, caller, body))

DetailAny ==
    \E approval_id \in ApprovalIds, caller \in Callers :
        CommitAll(detail_page(DB, approval_id, caller))

Edit ==
    \E approval_id \in ApprovalIds, caller \in Callers,
       subject \in Subjects, view_scope \in EditScopes,
       publish_memo \in AllPublish :
        CommitAll(update_approval_details(DB, approval_id, caller, subject,
                                          view_scope, publish_memo))

AttachAdd ==
    \E approval_id \in ApprovalIds, caller \in Callers, uploads \in Uploads :
        CommitAll(add_approval_attachments(DB, approval_id, caller, uploads))

AttachDelete ==
    \E approval_id \in ApprovalIds, caller \in Callers, file_id \in FileIds :
        CommitAll(delete_approval_attachment(DB, approval_id, caller, file_id))

\* a search reads only
Search ==
    \E caller \in Callers, q \in Queries, scope \in SearchScopes,
       status \in StatusFilters, date_from \in Dates, date_to \in Dates,
       limit \in Limits :
        /\ api_search(DB, caller, q, scope, status, date_from, date_to,
                      limit).resp \in {"ok", "login", "permission_denied"}
        /\ UNCHANGED vars

\* variant: the join without the comparison with the caller's keys
list_todo_any_approver(db, id, keys) ==
    /\ db.approvals[id].status = "pending"
    /\ \E s \in steps_of(db, id) :
          /\ s.status = "pending"
          /\ s.step_order = db.approvals[id].current_step

\* lines 836-860: the join of requests with their step at current_step, kept
\* when the step's normalised approver is one of the caller's keys
list_todo(db, id, keys) ==
    /\ db.approvals[id].status = "pending"
    /\ \E s \in steps_of(db, id) :
          /\ s.status = "pending"
          /\ s.step_order = db.approvals[id].current_step
          /\ normi(s.approver_name) \in keys

\* GET /approvals: ensure_db, then "my todo" and "my sent", newest first
list_page(db, caller) ==
    IF caller.user = <<>>
    THEN [db |-> db, resp |-> "login", my_todo |-> <<>>, my_sent |-> <<>>]
    ELSE IF ~can_use_approvals(caller.role, caller.permissions)
    THEN [db |-> db, resp |-> "permission_denied", my_todo |-> <<>>,
          my_sent |-> <<>>]
    ELSE
      LET db1 == renumber_all_steps(db)
          keys == user_identity_keys(caller.user)
      IN [db |-> db1, resp |-> "ok",
          my_todo |-> newest_first({ id \in DOMAIN db1.approvals :
                                       list_todo(db1, id, keys) }),
          my_sent |-> newest_first({ id \in DOMAIN db1.approvals :
                                       db1.approvals[id].requester = caller.user })]

\* the list page renumbers through ensure_db and reads
ListAny ==
    \E caller \in Callers : CommitAll(list_page(DB, caller))

\* a download reads only
Download ==
    \E approval_id \in ApprovalIds, caller \in Callers, file_id \in FileIds :
        /\ download_file(DB, approval_id, caller, file_id).resp
              \in {"file", "file_not_found", "login", "permission_denied"}
        /\ UNCHANGED vars

NextAll ==
    \/ CreateAny \/ DecideAny \/ AddStepAny \/ DeleteStepAny \/ ReorderAny
    \/ DetailAny \/ Edit \/ AttachAdd \/ AttachDelete \/ Search \/ ListAny
    \/ Download

SpecAll == Init /\ [][NextAll]_vars

(***************************************************************************)
(* create and decide with their notifications; each process keeps the      *)
(* reply of its last call.                                                 *)
(***************************************************************************)
MaxReqMail == 1
MaxLogMail == 3

Smtp == {"unset", "up", "down"}
MailRequesters == { <<"c">>, <<"a">> }
MailChains == { <<(<<"a">>)>>, << <<"C", " ">>, <<"a">> >> }

CommitMail(p, op, r) ==
    /\ Len(r.db.approvals) <= MaxReqMail
    /\ r.db.next_action_id <= MaxLogMail + 1
    /\ approvals' = r.db.approvals
    /\ steps' = r.db.steps
    /\ actions' = r.db.actions
    /\ memos' = r.db.memos
    /\ files' = r.db.files
    /\ versions' = r.db.versions
    /\ next_step_id' = r.db.next_step_id
    /\ next_action_id' = r.db.next_action_id
    /\ next_file_id' = r.db.next_file_id
    /\ sess' = [sess EXCEPT ![p] = [pc |-> "replied", op |-> op,
                                    changed |-> r.db # DB,
                                    mail |-> r.mail, resp |-> r.resp]]

CreateAndNotify(p) ==
    \E caller \in {Amy, Cat}, requester \in MailRequesters,
       chain \in MailChains, smtp \in Smtp :
        CommitMail(p, "create",
            create_approval_and_notify(DB, caller, requester, <<"s">>, "org",
                [kind |-> "list", items |-> chain], "0", <<>>, smtp))

DecideAndNotify(p) ==
    \E approval_id \in ApprovalIds, caller \in {Amy, Cat},
       action \in {"approve", "reject"}, smtp \in Smtp :
        CommitMail(p, "decide",
            do_action_and_notify(DB, approval_id, caller, action,
                                 <<" ", "o">>, smtp))

NextMail == \E p \in Procs : CreateAndNotify(p) \/ DecideAndNotify(p)

SpecMail == Init /\ [][NextMail]_vars

(***************************************************************************)
(* Two connections on one request: every handler of the chain reads, then  *)
(* writes, then renumbers, and the other connection may run in between.    *)
(***************************************************************************)
MaxReqRace == 1
MaxStepIdRace == 5
MaxLogRace == 4

RaceChains == { << <<"C", " ">>, <<"C", " ">>, <<"C", " ">>, <<"C", " ">> >> }
RaceNames == { <<"w">> }
RaceIds == 2..MaxStepIdRace
RaceOrders ==
    UNION { { o \in [1..n -> RaceIds] :
                \A j, k \in 1..n : j # k => o[j] # o[k] } : n \in 2..3 }

WithinBoundsRace(db) ==
    /\ Len(db.approvals) <= MaxReqRace
    /\ db.next_step_id <= MaxStepIdRace + 1
    /\ db.next_action_id <= MaxLogRace + 1

Written(db) ==
    /\ WithinBoundsRace(db)
    /\ approvals' = db.approvals
    /\ steps' = db.steps
    /\ actions' = db.actions
    /\ memos' = db.memos
    /\ files' = db.files
    /\ versions' = db.versions
    /\ next_step_id' = db.next_step_id
    /\ next_action_id' = db.next_action_id
    /\ next_file_id' = db.next_file_id

\* the handler has run ensure_db() and not yet read
Ready == [Idle EXCEPT !.pc = "ready"]

\* do_action, add_approver_step and delete_approver_step call ensure_db()
\* before they read (lines 1330, 1510, 2086); reorder_pending_steps does not
EnsureDb(p) ==
    /\ sess[p].pc = "idle"
    /\ Written(renumber_all_steps(DB))
    /\ sess' = [sess EXCEPT ![p] = Ready]

Reads(p, from, rd) ==
    /\ sess[p].pc = from
    /\ rd.resp = "read"
    /\ sess' = [sess EXCEPT ![p] = rd.locals]
    /\ UNCHANGED <<approvals, steps, actions, memos, files, versions,
                   next_step_id, next_action_id, next_file_id>>

\* the renumbering still to run for a request
ToRenumber(approval_id) == [pc |-> "renumber", approval_id |-> approval_id]

RaceCreate ==
    /\ \E chain \in RaceChains :
          Written(create_approval(DB, Cat, <<"c">>, <<"s">>, "org",
                     [kind |-> "list", items |-> chain], "0", <<>>).db)
    /\ approvals' # approvals
    /\ UNCHANGED sess

RaceDecideRead(p) ==
    \E action \in {"approve", "reject"} :
        Reads(p, "ready", do_action_read(DB, 1, Cat, action, <<" ", "o">>))

RaceDecideWrite(p) ==
    /\ sess[p].pc = "write"
    /\ Written(do_action_commit(DB, sess[p]).db)
    /\ sess' = [sess EXCEPT ![p] = Idle]

AddRead(p) ==
    \E display_name \in RaceNames :
        Reads(p, "ready", add_step_read(DB, 1, Cat, display_name))

AddWrite(p) ==
    /\ sess[p].pc = "add_write"
    /\ LET r == add_step_write(DB, sess[p])
       IN /\ Written(r.db)
          /\ sess' = [sess EXCEPT ![p] = IF r.resp = "ok"
                                         THEN ToRenumber(sess[p].approval_id)
                                         ELSE Idle]

DeleteRead(p) ==
    \E step_id \in RaceIds :
        Reads(p, "ready", delete_step_read(DB, 1, Cat, step_id))

DeleteWrite(p) ==
    /\ sess[p].pc = "delete_write"
    /\ Written(delete_step_write(DB, sess[p]).db)
    /\ sess' = [sess EXCEPT ![p] = ToRenumber(sess[p].approval_id)]

ReorderRead(p) ==
    \E o \in RaceOrders :
        Reads(p, "idle",
              reorder_read(DB, 1, Cat, [kind |-> "json", order |-> o]))

ReorderWrite(p) ==
    /\ sess[p].pc = "reorder_write"
    /\ LET r == reorder_write(DB, sess[p])
       IN /\ Written(r.db)
          /\ sess' = [sess EXCEPT ![p] = IF r.resp = "ok"
                                         THEN ToRenumber(sess[p].approval_id)
                                         ELSE Idle]

RenumberAfter(p) ==
    /\ sess[p].pc = "renumber"
    /\ Written(renumber_steps(DB, sess[p].approval_id))
    /\ sess' = [sess EXCEPT ![p] = Idle]

NextRace ==
    \/ RaceCreate
    \/ \E p \in Procs :
          \/ EnsureDb(p)
          \/ RaceDecideRead(p) \/ RaceDecideWrite(p)
          \/ AddRead(p) \/ AddWrite(p)
          \/ DeleteRead(p) \/ DeleteWrite(p)
          \/ ReorderRead(p) \/ ReorderWrite(p)
          \/ RenumberAfter(p)

SpecRace == Init /\ [][NextRace]_vars

(***************************************************************************)
(* _renumber_steps on its own, applied to any stored step list: rows of a   *)
(* database written before the unique index existed may repeat and skip     *)
(* step_order values (ensure_db renumbers them when the index cannot be     *)
(* created).                                                                *)
(***************************************************************************)
MaxRows == 3
MaxOrder == 3

LegacyRow(id, order) ==
    [id |-> id, approval_id |-> 1, step_order |-> order,
     approver_name |-> <<"C">>, status |-> "pending", comment |-> NULL]

LegacyStepLists ==
    UNION { { { LegacyRow(id, f[id]) : id \in ids } :
                f \in [ids -> 0..MaxOrder] } : ids \in SUBSET (1..MaxRows) }

InitRenumber ==
    /\ approvals = << [status |-> "pending", current_step |-> 0,
                       requester |-> <<"c">>, subject |-> <<"s">>,
                       view_scope |-> "restricted", publish_memo |-> 0] >>
    /\ steps \in LegacyStepLists
    /\ actions = <<>>
    /\ memos = <<>>
    /\ files = {}
    /\ versions = {}
    /\ next_file_id = 1
    /\ next_step_id = MaxRows + 1
    /\ next_action_id = 1
    /\ sess = [p \in Procs |-> Idle]

\* a caller's position: before the call, after one call, after two calls
Renumber(p) ==
    /\ sess[p].pc = "idle"
    /\ steps' = renumber_steps(DB, 1).steps
    /\ sess' = [sess EXCEPT ![p] = [pc |-> "renumbered", rows |-> steps]]
    /\ UNCHANGED <<approvals, actions, memos, files, versions, next_step_id,
                   next_action_id, next_file_id>>

RenumberAgain(p) ==
    /\ sess[p].pc = "renumbered"
    /\ steps' = renumber_steps(DB, 1).steps
    /\ sess' = [sess EXCEPT ![p] = [pc |-> "renumbered_twice",
                                    rows |-> sess[p].rows]]
    /\ UNCHANGED <<approvals, actions, memos, files, versions, next_step_id,
                   next_action_id, next_file_id>>

NextRenumber == \E p \in Procs : Renumber(p) \/ RenumberAgain(p)

SpecRenumber == InitRenumber /\ [][NextRenumber]_vars

(***************************************************************************)
(* Properties.                                                             *)
(***************************************************************************)
Blank(comment) == strip(comment) = <<>>

PassesGate(caller) ==
    caller.user # <<>> /\ can_use_approvals(caller.role, caller.permissions)

Decisions == {"approve", "reject", "ack"}

DecidedIn(approval_id) ==
    \E k \in DOMAIN actions : /\ actions[k].approval_id = approval_id
                              /\ actions[k].action \in Decisions

\* C1 - single active step: every pending request has exactly one step at
\* current_step, that step is pending, and every step of lower order is approved.
C1_SingleActiveStep ==
    \A i \in DOMAIN approvals :
        approvals[i].status = "pending" =>
            LET cur == approvals[i].current_step
                at == { s \in steps_of(DB, i) : s.step_order = cur }
            IN /\ Cardinality(at) = 1
               /\ \A s \in at : s.status = "pending"
               /\ \A s \in steps_of(DB, i) :
                     s.step_order < cur => s.status = "approved"

\* a pending request that a decision has moved to its second step
C1_Witness ==
    \E i \in DOMAIN approvals :
        /\ approvals[i].status = "pending"
        /\ approvals[i].current_step = 1
        /\ DecidedIn(i)

\* C2 - terminal pointer: current_step = -1 exactly when the request is approved
\* or rejected; while pending it is an index 0..n-1 into the step list.
C2_TerminalPointer ==
    \A i \in DOMAIN approvals :
        LET n == Cardinality(steps_of(DB, i))
        IN /\ approvals[i].current_step = -1
                <=> approvals[i].status \in {"approved", "rejected"}
           /\ approvals[i].status = "pending"
                => approvals[i].current_step \in 0..(n - 1)

\* one request resolved by its last decision while another is still pending
C2_Witness ==
    \E i, j \in DOMAIN approvals :
        /\ approvals[i].status = "approved"
        /\ approvals[i].current_step = -1
        /\ DecidedIn(i)
        /\ approvals[j].status = "pending"

C3_DecideOnRejected(P(_, _, _, _)) ==
    \A i \in DOMAIN approvals :
        approvals[i].status = "rejected" =>
            \A caller \in Callers, action \in ActionNames, comment \in Comments :
                P(caller, action, comment,
                  do_action(DB, i, caller, action, comment))

\* C3 as stated: every decide by a caller with module access on a rejected
\* request answers "no active step" or "approval not pending".
C3_AsStated ==
    C3_DecideOnRejected(LAMBDA caller, action, comment, r :
        (PassesGate(caller) /\ action \in Decisions)
            => r.resp \in {"no_active_step", "approval_not_pending"})

C3_Refused ==
    C3_DecideOnRejected(LAMBDA caller, action, comment, r :
        /\ r.db = DB
        /\ r.resp \in {"login", "permission_denied", "comment_required",
                       "no_active_step"}
        /\ r.resp = "comment_required" => (action # "ack" /\ Blank(comment))
        /\ (PassesGate(caller) /\ (action = "ack" \/ ~Blank(comment)))
               => r.resp = "no_active_step")

C3_StaysRejected ==
    \A i \in DOMAIN approvals :
        approvals[i].status = "rejected" =>
            /\ approvals[i].current_step = -1
            /\ approvals'[i] = approvals[i]

\* C3 (amended) - once rejected, no decide call changes anything: it is refused
\* with comment_required when approve/reject comes with a blank comment, with
\* "no active step" otherwise (login or permission redirects for callers without
\* access), and the request stays rejected with current_step = -1 for ever.
C3_RejectionFinality == [](C3_Refused) /\ [][C3_StaysRejected]_vars

\* a request rejected at its first step, with a later step still pending whose
\* named approver tries to decide and is told there is no active step
C3_Witness ==
    \E i \in DOMAIN approvals :
        /\ approvals[i].status = "rejected"
        /\ \E s \in steps_of(DB, i) :
              /\ s.status = "pending"
              /\ is_step_approver(Cat, s.approver_name)
        /\ do_action(DB, i, Cat, "approve", <<"o">>).resp = "no_active_step"

\* the active step of a pending request: the step at current_step
ActiveStepsOf(i) ==
    { s \in steps_of(DB, i) : s.step_order = approvals[i].current_step
                              /\ s.status = "pending" }

\* the forms under which a directory row is known
RowForms(r) ==
    { normi(x) : x \in { Employees[r].english_name, Employees[r].name,
                         combine_label(Employees[r].english_name,
                                       Employees[r].name),
                         before_at(Employees[r].email) } } \ { <<>> }

\* the name is the login or a form of a directory row that the login also names
NamesCaller(approver_name, login) ==
    /\ normi(approver_name) # <<>>
    /\ \/ normi(approver_name) = normi(login)
       \/ \E r \in DOMAIN Employees : /\ normi(login) \in RowForms(r)
                                      /\ normi(approver_name) \in RowForms(r)

DecideCalls(P(_, _, _, _, _)) ==
    \A i \in ApprovalIds, caller \in Callers, action \in ActionNames,
       comment \in Comments :
        P(i, caller, action, comment, do_action(DB, i, caller, action, comment))

\* C4 - step authorization: a decide call changes the database only if the
\* normalised approver name of the active step is the caller's login or a form of
\* a directory row matching the login; a caller with module access (permission
\* flag or admin role) and an acceptable comment who matches none of these forms
\* gets "not your step" on a request with an active step, and nothing changes.
C4_StepAuthorization ==
    DecideCalls(LAMBDA i, caller, action, comment, r :
        /\ r.db # DB =>
              /\ i \in DOMAIN approvals
              /\ \E s \in ActiveStepsOf(i) :
                    NamesCaller(s.approver_name, caller.user)
        /\ ( /\ PassesGate(caller)
             /\ (action = "ack" \/ ~Blank(comment))
             /\ i \in DOMAIN approvals
             /\ ActiveStepsOf(i) # {}
             /\ \A s \in ActiveStepsOf(i) :
                   ~NamesCaller(s.approver_name, caller.user) )
           => (r.resp = "not_your_step" /\ r.db = DB))

\* a step decided by a caller known only through the directory, and a pending
\* request whose active step refuses the admin and the permission holder
C4_Witness ==
    /\ \E k \in DOMAIN actions :
          /\ actions[k].action \in Decisions
          /\ actions[k].actor = Amy.user
          /\ \E s \in steps : /\ s.id = actions[k].step_id
                              /\ normi(s.approver_name) # normi(Amy.user)
    /\ \E i \in DOMAIN approvals :
          /\ ActiveStepsOf(i) # {}
          /\ do_action(DB, i, Root, "approve", <<"o">>).resp = "not_your_step"
          /\ do_action(DB, i, Amy, "ack", <<>>).resp = "not_your_step"

SuccessfulDecides(kinds, P(_, _, _, _, _)) ==
    DecideCalls(LAMBDA i, caller, action, comment, r :
        (action \in kinds /\ r.resp = "ok") => P(i, caller, action, comment, r))

\* the step list after the active step s of request i got the given status
StepsWith(s, status, comment) ==
    (steps \ {s}) \cup { [s EXCEPT !.status = status, !.comment = comment] }

OtherRequestsKept(i, r) ==
    /\ Len(r.db.approvals) = Len(approvals)
    /\ \A j \in DOMAIN approvals : j # i => r.db.approvals[j] = approvals[j]

LastRow(log) == log[Len(log)]

C5_AdvanceOrComplete ==
    SuccessfulDecides({"approve", "ack"}, LAMBDA i, caller, action, comment, r :
        LET k == approvals[i].current_step
            n == Cardinality(steps_of(DB, i))
        IN /\ \E s \in ActiveStepsOf(i) :
                 /\ s.step_order = k
                 /\ r.db.steps = StepsWith(s, "approved", LastRow(r.db.actions).note)
           /\ IF k + 1 < n
              THEN /\ r.db.approvals[i].status = "pending"
                   /\ r.db.approvals[i].current_step = k + 1
              ELSE /\ r.db.approvals[i].status = "approved"
                   /\ r.db.approvals[i].current_step = -1
           /\ OtherRequestsKept(i, r))

C5_AckAsApprove ==
    \A i \in ApprovalIds, caller \in Callers, comment \in Comments :
        LET ack == do_action(DB, i, caller, "ack", comment)
            app == do_action(DB, i, caller, "approve", comment)
        IN /\ ~Blank(comment) =>
                /\ ack.resp = app.resp
                /\ ack.db.approvals = app.db.approvals
                /\ ack.db.steps = app.db.steps
                /\ ack.db.memos = app.db.memos
                /\ ack.resp = "ok" =>
                      /\ LastRow(ack.db.actions).action = "ack"
                      /\ LastRow(app.db.actions).action = "approve"
                      /\ ack.db.actions =
                           [app.db.actions EXCEPT
                               ![Len(app.db.actions)].action = "ack"]
           /\ (Blank(comment) /\ ack.resp = "ok") =>
                /\ LastRow(ack.db.actions).note = AckDefault
                /\ app.resp = "comment_required"

\* C5 - advance or complete: a successful approve or acknowledge on the active
\* step at order k of a request with n steps marks exactly that step approved
\* and moves current_step to k+1 (still pending) when k+1 < n, otherwise
\* resolves the request as approved with current_step = -1; acknowledge yields
\* the same steps, request and announcement as approve and differs only in the
\* audit action kind and in the comment it defaults to.
C5_AdvanceOrCompleteAndAck == C5_AdvanceOrComplete /\ C5_AckAsApprove

\* a request advanced by an approve and then completed by an acknowledge
C5_Witness ==
    \E i \in DOMAIN approvals :
        /\ approvals[i].status = "approved"
        /\ approvals[i].current_step = -1
        /\ \E a, b \in DOMAIN actions :
              /\ a < b
              /\ actions[a].approval_id = i /\ actions[a].action = "approve"
              /\ actions[b].approval_id = i /\ actions[b].action = "ack"

C6_RejectResult ==
    SuccessfulDecides({"reject"}, LAMBDA i, caller, action, comment, r :
        /\ \E s \in ActiveStepsOf(i) :
              r.db.steps = StepsWith(s, "rejected", LastRow(r.db.actions).note)
        /\ r.db.approvals[i].status = "rejected"
        /\ r.db.approvals[i].current_step = -1
        /\ OtherRequestsKept(i, r))

C6_OneRejectedStep ==
    \A i \in DOMAIN approvals :
        approvals[i].status = "rejected" =>
            \E s \in steps_of(DB, i) :
                /\ s.status = "rejected"
                /\ \A t \in steps_of(DB, i) :
                      /\ t.step_order < s.step_order => t.status = "approved"
                      /\ t.step_order > s.step_order => t.status = "pending"
                      /\ t.step_order = s.step_order => t = s

C6_StepsFrozen ==
    \A i \in DOMAIN approvals :
        approvals[i].status = "rejected" =>
            { s \in steps' : s.approval_id = i } = steps_of(DB, i)

\* C6 - reject is terminal: a successful reject on the active step marks exactly
\* that step rejected and sets the request to rejected with current_step = -1;
\* a rejected request has exactly one rejected step, every lower step approved
\* and every higher step pending, and its steps never change afterwards.
C6_RejectIsTerminal ==
    [](C6_RejectResult /\ C6_OneRejectedStep) /\ [][C6_StepsFrozen]_vars

\* a request rejected at its second step while its third step is still pending
C6_Witness ==
    \E i \in DOMAIN approvals :
        /\ approvals[i].status = "rejected"
        /\ \E a, b, c \in steps_of(DB, i) :
              /\ a.step_order = 0 /\ a.status = "approved"
              /\ b.step_order = 1 /\ b.status = "rejected"
              /\ c.step_order = 2 /\ c.status = "pending"
        /\ \E k \in DOMAIN actions :
              actions[k].approval_id = i /\ actions[k].action = "reject"

\* C7 - no double-apply of a decision: no step has more than one decision in
\* the audit log, and a request with a committed reject is rejected with
\* current_step = -1, also when two decide calls interleave.
C7_NoDoubleApply ==
    /\ \A s \in steps :
          Cardinality({ k \in DOMAIN actions :
                          /\ actions[k].step_id = s.id
                          /\ actions[k].action \in Decisions }) <= 1
    /\ \A k \in DOMAIN actions :
          actions[k].action = "reject" =>
              /\ approvals[actions[k].approval_id].status = "rejected"
              /\ approvals[actions[k].approval_id].current_step = -1

CreateCalls(P(_, _, _)) ==
    \A caller \in Callers, requester \in Requesters, payload \in Payloads,
       view_scope \in ScopeInputs, publish_memo \in PublishInputs :
        P(caller, payload,
          create_approval(DB, caller, requester, <<"s">>, view_scope, payload,
                          publish_memo, <<>>))

C8_NoApprover ==
    CreateCalls(LAMBDA caller, payload, r :
        (payload.kind # "list" \/ payload.items = <<>>) =>
            /\ r.db = DB
            /\ PassesGate(caller) => r.resp = "no_approver")

C8_Created ==
    CreateCalls(LAMBDA caller, payload, r :
        (PassesGate(caller) /\ payload.kind = "list" /\ payload.items # <<>>) =>
            LET n == Len(payload.items)
                id == Len(approvals) + 1
                made == r.db.steps \ steps
            IN /\ r.resp = "ok"
               /\ Len(r.db.approvals) = id
               /\ SubSeq(r.db.approvals, 1, id - 1) = approvals
               /\ r.db.approvals[id].status = "pending"
               /\ r.db.approvals[id].current_step = 0
               /\ steps \subseteq r.db.steps
               /\ Cardinality(made) = n
               /\ \A s \in made : s.approval_id = id /\ s.status = "pending"
               /\ \A k \in 1..n :
                     \E s \in made :
                         /\ s.step_order = k - 1
                         /\ s.approver_name = create_save_name(payload.items[k])
                         /\ \A t \in made : t.step_order < s.step_order
                                                => t.id < s.id
               /\ Len(r.db.actions) = Len(actions) + 1
               /\ SubSeq(r.db.actions, 1, Len(actions)) = actions
               /\ LastRow(r.db.actions).action = "submit"
               /\ LastRow(r.db.actions).approval_id = id)

\* C8 - creation: a create whose approver payload is empty, not a list or not
\* JSON is refused and changes nothing; a create with n >= 1 names adds exactly
\* one request (pending, current_step 0), exactly n pending steps with orders
\* 0..n-1 in the supplied order, duplicates included, and one submit audit row.
C8_Creation == C8_NoApprover /\ C8_Created

\* a created request whose chain names the same approver twice, untouched
C8_Witness ==
    \E i \in DOMAIN approvals :
        /\ approvals[i].status = "pending"
        /\ approvals[i].current_step = 0
        /\ \E a, b \in steps_of(DB, i) :
              /\ a.step_order = 0 /\ b.step_order = 1
              /\ a.approver_name = b.approver_name
              /\ a.status = "pending" /\ b.status = "pending"
        /\ Cardinality(steps_of(DB, i)) = 2
        /\ Cardinality({ k \in DOMAIN actions : actions[k].approval_id = i }) = 1

C9_CommentRequired ==
    DecideCalls(LAMBDA i, caller, action, comment, r :
        (action \in {"approve", "reject"} /\ Blank(comment)) =>
            /\ r.db = DB
            /\ PassesGate(caller) => r.resp = "comment_required")

C9_AckDefaults ==
    DecideCalls(LAMBDA i, caller, action, comment, r :
        ( /\ action = "ack" /\ Blank(comment) /\ PassesGate(caller)
          /\ i \in DOMAIN approvals
          /\ \E s \in ActiveStepsOf(i) : NamesCaller(s.approver_name, caller.user) )
        => /\ r.resp = "ok"
           /\ \E s \in ActiveStepsOf(i) :
                 r.db.steps = StepsWith(s, "approved", AckDefault)
           /\ LastRow(r.db.actions).action = "ack"
           /\ LastRow(r.db.actions).note = AckDefault)

\* C9 - comment rule: approve or reject with a comment that is blank after
\* trimming answers comment_required and changes nothing; acknowledge with a
\* blank comment by the named approver of the active step is accepted and
\* stores the default comment on the step and in the audit row.
C9_CommentRule == C9_CommentRequired /\ C9_AckDefaults

\* a step acknowledged without a comment, and an approve with a blank comment
\* by the named approver of an active step that is refused
C9_Witness ==
    /\ \E s \in steps : s.status = "approved" /\ s.comment = AckDefault
    /\ \E i \in DOMAIN approvals :
          /\ \E s \in ActiveStepsOf(i) : NamesCaller(s.approver_name, Cat.user)
          /\ do_action(DB, i, Cat, "approve", <<" ">>).resp = "comment_required"

DeleteCalls(P(_, _, _, _)) ==
    \A i \in ApprovalIds, caller \in Callers, step_id \in StepIds :
        P(i, caller, step_id, delete_approver_step(DB, i, caller, step_id))

\* the caller passes the gate and is the requester of request i or an admin
MayEdit(caller, i) ==
    /\ PassesGate(caller)
    /\ (caller.role = "admin" \/ approvals[i].requester = caller.user)

C10_OnlyLaterPending ==
    DeleteCalls(LAMBDA i, caller, step_id, r :
        r.db # DB =>
            /\ i \in DOMAIN approvals
            /\ \E s \in steps_of(DB, i) :
                  /\ s.id = step_id
                  /\ s.status = "pending"
                  /\ s.step_order > approvals[i].current_step
                  /\ Cardinality(r.db.steps) = Cardinality(steps) - 1
                  /\ r.db.approvals = approvals
                  /\ r.db.steps \subseteq
                        (steps \ steps_of(DB, i)) \cup
                        { [t EXCEPT !.step_order = o] :
                            t \in steps_of(DB, i) \ {s}, o \in 0..MaxStepId })

\* C10 as stated: for the active step or any decided step, delete_step by the
\* requester or an admin answers cannot_delete_this_step and changes nothing.
C10_AsStated ==
    DeleteCalls(LAMBDA i, caller, step_id, r :
        \A s \in steps :
            ( /\ i \in DOMAIN approvals /\ MayEdit(caller, i)
              /\ s.id = step_id /\ s.approval_id = i
              /\ (s.status # "pending"
                    \/ s.step_order = approvals[i].current_step) )
            => (r.resp = "cannot_delete_this_step" /\ r.db = DB))

C10_Refusals ==
    DeleteCalls(LAMBDA i, caller, step_id, r :
        \A s \in steps :
            ( /\ i \in DOMAIN approvals /\ MayEdit(caller, i)
              /\ s.id = step_id /\ s.approval_id = i
              /\ (s.status # "pending"
                    \/ s.step_order <= approvals[i].current_step) )
            => /\ r.db = DB
               /\ r.resp = IF approvals[i].status = "pending"
                           THEN "cannot_delete_this_step"
                           ELSE "approval_not_pending")

\* C10 (amended) - delete eligibility: delete_step removes a step only if it is
\* pending and its order is greater than current_step; for the active step or a
\* decided step of a pending request it answers cannot_delete_this_step, for any
\* step of a resolved request approval_not_pending, and nothing changes.
C10_DeleteEligibility == C10_OnlyLaterPending /\ C10_Refusals

\* a later pending step was deleted from a request that a decision had advanced,
\* and deleting its decided step or its active step is refused
C10_Witness ==
    \E i \in DOMAIN approvals :
        /\ approvals[i].status = "pending"
        /\ \E k \in DOMAIN actions :
              actions[k].approval_id = i /\ actions[k].action = "delete_step"
        /\ \E s \in steps_of(DB, i) :
              /\ s.status = "approved"
              /\ delete_approver_step(DB, i, Cat, s.id).resp
                    = "cannot_delete_this_step"
        /\ \E s \in ActiveStepsOf(i) :
              delete_approver_step(DB, i, Root, s.id).resp
                    = "cannot_delete_this_step"

\* id lists a reorder call may carry: every list of at most two step ids,
\* existing or not, and the longer lists of Orders
ReorderLists ==
    { <<>> } \cup { <<a>> : a \in StepIds }
             \cup { <<a, b>> : a \in StepIds, b \in StepIds } \cup Orders

EligibleIds(i) ==
    { s.id : s \in { t \in steps_of(DB, i) :
                        t.status = "pending"
                        /\ t.step_order > approvals[i].current_step } }

IsPermutationOf(ids, S) ==
    /\ Len(ids) = Cardinality(S)
    /\ { ids[k] : k \in DOMAIN ids } = S

ReorderCalls(P(_, _, _, _)) ==
    \A i \in DOMAIN approvals, caller \in Callers, ids \in ReorderLists :
        P(i, caller, ids,
          reorder_pending_steps(DB, i, caller, [kind |-> "json", order |-> ids]))

\* C11 - reorder scope enforcement: on a pending request, a reorder by the
\* requester or an admin whose id list is not exactly a permutation of the
\* eligible ids (pending steps of this request with step_order > current_step)
\* answers invalid_ids, and no caller's call with such a list changes anything;
\* a list that is such a permutation is not answered invalid_ids.
C11_ReorderScope ==
    ReorderCalls(LAMBDA i, caller, ids, r :
        approvals[i].status = "pending" =>
            /\ ~IsPermutationOf(ids, EligibleIds(i)) =>
                  /\ r.db = DB
                  /\ MayEdit(caller, i) => r.resp = "invalid_ids"
            /\ (IsPermutationOf(ids, EligibleIds(i)) /\ MayEdit(caller, i))
                  => r.resp = "ok")

\* a request advanced by a decision and then reordered, on which lists naming
\* the decided step, the active step, a repeated id or no id are refused
C11_Witness ==
    \E i \in DOMAIN approvals :
        /\ approvals[i].status = "pending"
        /\ approvals[i].current_step = 1
        /\ \E k \in DOMAIN actions :
              actions[k].approval_id = i /\ actions[k].action = "reorder_steps"
        /\ \E d, a, e \in steps_of(DB, i) :
              /\ d.status = "approved" /\ a \in ActiveStepsOf(i)
              /\ e.id \in EligibleIds(i)
              /\ \A ids \in { <<d.id>>, <<a.id>>, <<a.id, e.id>>, <<e.id, e.id>>,
                              <<>> } :
                    reorder_pending_steps(DB, i, Cat,
                        [kind |-> "json", order |-> ids]).resp = "invalid_ids"

\* display names an add_step call may carry
AddInputs ==
    AddNames \cup { <<"c">>, <<"C", " ">>, <<"a">>, <<"A", " ", " ", "w">>,
                    <<"b">>, <<"q">>, <<"x">> }

AddCalls(P(_, _, _, _)) ==
    \A i \in DOMAIN approvals, caller \in Callers, d \in AddInputs :
        P(i, caller, d, add_approver_step(DB, i, caller, d))

\* the name an add_step call stores: the directory name of the person the
\* trimmed text names, else the trimmed text
NameToStore(d) ==
    LET emp == find_employee_by_display(strip(d))
    IN IF emp = 0 THEN strip(d)
       ELSE IF Employees[emp].name # <<>> THEN Employees[emp].name
       ELSE Employees[emp].english_name

NamedInChain(i, name) ==
    \E s \in steps_of(DB, i) : normi(s.approver_name) = normi(name)

\* C12 - duplicate approver on add: on a pending request, an add_step whose
\* stored name (directory-resolved, else the trimmed text) equals, ignoring case
\* and whitespace runs, the approver name of an existing step, decided or
\* pending, changes nothing and answers the requester or an admin with
\* duplicated_name; with a name that no step carries their call succeeds.
C12_DuplicateOnAdd ==
    AddCalls(LAMBDA i, caller, d, r :
        (approvals[i].status = "pending" /\ ~Blank(d)) =>
            /\ NamedInChain(i, NameToStore(d)) =>
                  /\ r.db = DB
                  /\ MayEdit(caller, i) => r.resp = "duplicated_name"
            /\ (~NamedInChain(i, NameToStore(d)) /\ MayEdit(caller, i))
                  => r.resp = "ok")

\* a request extended by add_step whose first step is decided: adding that
\* step's approver again, under an alias of another case, is refused
C12_Witness ==
    \E i \in DOMAIN approvals :
        /\ approvals[i].status = "pending"
        /\ \E k \in DOMAIN actions :
              actions[k].approval_id = i /\ actions[k].action = "add_approver"
        /\ \E s \in steps_of(DB, i) :
              /\ s.status = "approved"
              /\ s.approver_name = <<"W">>
              /\ \A t \in steps_of(DB, i) \ {s} :
                    normi(t.approver_name) # normi(s.approver_name)
        /\ add_approver_step(DB, i, Cat, <<"a">>).resp = "duplicated_name"
        /\ add_approver_step(DB, i, Root, <<"A", " ", " ", "w">>).resp
              = "duplicated_name"

C13_Appended ==
    AddCalls(LAMBDA i, caller, d, r :
        r.resp = "ok" =>
            LET n == Cardinality(steps_of(DB, i))
                made == r.db.steps \ steps
            IN /\ approvals[i].status = "pending"
               /\ steps \subseteq r.db.steps
               /\ Cardinality(made) = 1
               /\ \A s \in made :
                     /\ s.approval_id = i
                     /\ s.status = "pending"
                     /\ s.step_order = n
                     /\ s.approver_name = NameToStore(d)
                     /\ s.id \notin { t.id : t \in steps }
                     /\ r.db.actions =
                          Append(actions,
                                 [id |-> next_action_id, approval_id |-> i,
                                  step_id |-> s.id, actor |-> caller.user,
                                  action |-> "add_approver",
                                  note |-> s.approver_name])
               /\ r.db.approvals = approvals)

C13_ApprovedMeansAllApproved ==
    \A i \in DOMAIN approvals :
        approvals[i].status = "approved" =>
            \A s \in steps_of(DB, i) : s.status = "approved"

\* C13 - append position: a successful add_step on a pending request with n
\* steps adds exactly one pending step at step_order n, keeps every existing
\* step row and the request row as they were, and appends exactly one
\* add_approver audit row; a request is approved only when all of its steps,
\* the added ones included, are approved.
C13_AppendPosition == C13_Appended /\ C13_ApprovedMeansAllApproved

\* a one-step request that got a second step by add_step: the decision on its
\* first step advanced to the added step instead of completing the request
C13_Witness ==
    \E i \in DOMAIN approvals :
        /\ approvals[i].status = "pending"
        /\ approvals[i].current_step = 1
        /\ \E k, m \in DOMAIN actions :
              /\ k < m
              /\ actions[k].approval_id = i /\ actions[k].action = "add_approver"
              /\ actions[m].approval_id = i /\ actions[m].action \in Decisions
              /\ \E s \in ActiveStepsOf(i) : s.id = actions[k].step_id
        /\ \A s \in steps_of(DB, i) :
              s.step_order = 0 => s.status = "approved"

\* the step orders of request i in db are 0..n-1, each once
Dense(db, i) ==
    LET rows == steps_of(db, i)
    IN /\ { s.step_order : s \in rows } = 0..(Cardinality(rows) - 1)
       /\ \A s, t \in rows : s.step_order = t.step_order => s = t

C14_DenseAfterCalls ==
    /\ CreateCalls(LAMBDA caller, payload, r :
          r.resp = "ok" => Dense(r.db, Len(r.db.approvals)))
    /\ AddCalls(LAMBDA i, caller, d, r : r.resp = "ok" => Dense(r.db, i))
    /\ DeleteCalls(LAMBDA i, caller, step_id, r :
          r.resp = "ok" => Dense(r.db, i))
    /\ ReorderCalls(LAMBDA i, caller, ids, r : r.resp = "ok" => Dense(r.db, i))

\* C14 - dense step orders: in every state reached by completed calls, and
\* after every successful create, add_step, delete_step or reorder_steps taken
\* from such a state, the step_order values of each request are exactly
\* 0..n-1 with no duplicate and no gap.
C14_DenseStepOrders ==
    /\ \A i \in DOMAIN approvals : Dense(DB, i)
    /\ C14_DenseAfterCalls

\* a request from whose chain the middle step was deleted: the step behind it
\* moved up to order 1
C14_Witness ==
    \E i \in DOMAIN approvals :
        \E k \in DOMAIN actions, a, b \in steps_of(DB, i) :
            /\ actions[k].approval_id = i /\ actions[k].action = "delete_step"
            /\ a.step_order = 0 /\ b.step_order = 1
            /\ a.id < actions[k].step_id /\ actions[k].step_id < b.id
            /\ Cardinality(steps_of(DB, i)) = 2

\* s comes before t in ascending (step_order, id) order
Precedes(s, t) ==
    \/ s.step_order < t.step_order
    \/ (s.step_order = t.step_order /\ s.id < t.id)

OrderOf(rows, id) == (CHOOSE s \in rows : s.id = id).step_order

C15_Renumbered ==
    \A i \in DOMAIN approvals :
        LET rows == steps_of(DB, i)
            once == renumber_steps(DB, i)
            twice == renumber_steps(once, i)
            ids == { s.id : s \in rows }
        IN /\ Dense(once, i)
           /\ { [s EXCEPT !.step_order = 0] : s \in steps_of(once, i) }
                 = { [s EXCEPT !.step_order = 0] : s \in rows }
           /\ \A s, t \in rows :
                 Precedes(s, t) => OrderOf(steps_of(once, i), s.id)
                                      < OrderOf(steps_of(once, i), t.id)
           /\ \A id \in ids : OrderOf(steps_of(twice, i), id)
                                 = OrderOf(steps_of(once, i), id)
           /\ twice = once
           /\ once.steps \ steps_of(once, i) = steps \ rows

C15_SecondCallKeeps ==
    \A p \in Procs :
        (sess[p].pc = "renumbered" /\ sess'[p].pc = "renumbered_twice")
            => steps' = steps

\* C15 - renumber idempotence: for any stored step list of a request, repeated
\* and skipped step_order values included, renumber assigns 0..n-1 in ascending
\* (step_order, id) order and changes nothing else, and a second call right
\* after the first leaves the id -> step_order mapping as the first call made it.
C15_RenumberIdempotent == [](C15_Renumbered) /\ [][C15_SecondCallKeeps]_vars

\* renumber was called twice on a list of three rows that repeated one
\* step_order value and skipped another
C15_Witness ==
    \E p \in Procs :
        /\ sess[p].pc = "renumbered_twice"
        /\ Cardinality(sess[p].rows) = 3
        /\ \E s, t \in sess[p].rows : s # t /\ s.step_order = t.step_order
        /\ { s.step_order : s \in sess[p].rows } # 0..2
        /\ \E s \in sess[p].rows : s.step_order > 2
        /\ Dense(DB, 1)

(***************************************************************************)
(* C16  Visibility gate.  For an existing request and a logged-in caller,  *)
(* the detail view is granted exactly when the caller's role is admin, or  *)
(* the caller has the approvals flag and the scope is org or the caller's  *)
(* identity keys contain the normalized requester or the normalized        *)
(* approver name of some step; every other caller with module access gets  *)
(* 403 on a restricted or top_secret request.                              *)
(***************************************************************************)
LoggedIn == { c \in Callers : c.user # <<>> }
HasFlag(c) == c.permissions = "{approvals:true}"

Participant(i, c) ==
    \/ normi(approvals[i].requester) \in user_identity_keys(c.user)
    \/ \E s \in steps : /\ s.approval_id = i
                        /\ normi(s.approver_name) \in user_identity_keys(c.user)

Granted(i, c) ==
    \/ c.role = "admin"
    \/ HasFlag(c) /\ (approvals[i].view_scope = "org" \/ Participant(i, c))

C16_VisibilityGate ==
    \A i \in 1..Len(approvals) : \A c \in LoggedIn :
        LET r == detail_page(DB, i, c)
        IN /\ r.resp = "ok" <=> Granted(i, c)
           /\ ( /\ ~Granted(i, c)
                /\ HasFlag(c)
                /\ approvals[i].view_scope \in {"restricted", "top_secret"} )
              => r.resp = "forbidden"
           /\ r.db = DB

\* a top_secret and a restricted request: a stranger is refused, the
\* requester, a named approver and an admin are let in
C16_Witness ==
    \E i \in 1..Len(approvals) :
        /\ approvals[i].view_scope \in {"restricted", "top_secret"}
        /\ \E s \in steps : s.approval_id = i /\ normi(s.approver_name) = <<"c">>
        /\ detail_page(DB, i, Amy).resp = "forbidden"
        /\ detail_page(DB, i, Cat).resp = "ok"
        /\ detail_page(DB, i, Root).resp = "ok"
        /\ detail_page(DB, i, Guest).resp = "permission_denied"

(***************************************************************************)
(* C17  Search suppression of top_secret.  Whatever the query, scope,      *)
(* status and date filters (and the limit), the rows api_search returns to *)
(* a caller who is neither admin nor requester nor named approver of a     *)
(* top_secret request never contain that request.                          *)
(***************************************************************************)
SearchIds(c, q, scope, status, date_from, date_to, limit) ==
    LET r == api_search(DB, c, q, scope, status, date_from, date_to, limit)
    IN { r.rows[k].id : k \in DOMAIN r.rows }

Outsiders(i) == { c \in Callers : c.role # "admin" /\ ~Participant(i, c) }

C17_TopSecretSuppressed ==
    \A i \in 1..Len(approvals) :
        approvals[i].view_scope = "top_secret" =>
            \A c \in Outsiders(i), q \in Queries, scope \in SearchScopes,
               status \in StatusFilters, date_from \in Dates,
               date_to \in Dates, limit \in Limits :
                i \notin SearchIds(c, q, scope, status, date_from, date_to,
                                   limit)

\* a top_secret request that matches an outsider's filters and is held
\* back from them, while its requester and an admin find it
C17_Witness ==
    \E i \in 1..Len(approvals) :
        /\ approvals[i].view_scope = "top_secret"
        /\ Amy \in Outsiders(i)
        /\ search_where(DB, i, Amy.user, <<"C">>, "all", "pending", 1, 1)
        /\ i \notin SearchIds(Amy, <<"C">>, "all", "pending", 1, 1, 1)
        /\ i \in SearchIds(Cat, <<"C">>, "all", "pending", 1, 1, 1)
        /\ i \in SearchIds(Root, <<"C">>, "all", "pending", 1, 1, 1)

(***************************************************************************)
(* C18  Resolved requests are frozen.  On an approved or rejected request  *)
(* every add_step, delete_step, reorder_steps, content edit, attachment    *)
(* add and attachment delete fails and changes nothing; the requester or   *)
(* an admin calling with well-formed input is answered                     *)
(* approval_not_pending (chain calls) or not_editable (content and         *)
(* attachments); and no step of the system changes the request's row, its  *)
(* steps, attachments, audit rows or versions afterwards.                  *)
(***************************************************************************)
Resolved == { i \in 1..Len(approvals) :
                approvals[i].status \in {"approved", "rejected"} }

\* every mutation call on request i: who calls, whether the input passes
\* the handler's own validation, the refusal a closed request earns, the reply
MutationCalls(i) ==
    { [caller |-> c, well_formed |-> strip(d) # <<>>,
       refusal |-> "approval_not_pending",
       r |-> add_approver_step(DB, i, c, d)] : c \in Callers, d \in AddNames }
    \cup
    { [caller |-> c, well_formed |-> TRUE, refusal |-> "approval_not_pending",
       r |-> delete_approver_step(DB, i, c, sid)] :
         c \in Callers, sid \in StepIds }
    \cup
    { [caller |-> c, well_formed |-> b.kind = "json",
       refusal |-> "approval_not_pending",
       r |-> reorder_pending_steps(DB, i, c, b)] : c \in Callers, b \in Bodies }
    \cup
    { [caller |-> c, well_formed |-> TRUE, refusal |-> "not_editable",
       r |-> update_approval_details(DB, i, c, x[1], x[2], x[3])] :
         c \in Callers, x \in Subjects \X EditScopes \X AllPublish }
    \cup
    { [caller |-> c, well_formed |-> valid_files(u) # <<>>,
       refusal |-> "not_editable",
       r |-> add_approval_attachments(DB, i, c, u)] :
         c \in Callers, u \in Uploads }
    \cup
    { [caller |-> c, well_formed |-> TRUE, refusal |-> "not_editable",
       r |-> delete_approval_attachment(DB, i, c, fid)] :
         c \in Callers, fid \in FileIds }

\* as stated: the requester's or an admin's call always earns one of the two
\* named refusals
C18_AsStated ==
    \A i \in Resolved : \A k \in MutationCalls(i) :
        MayEdit(k.caller, i) =>
            k.r.resp \in {"approval_not_pending", "not_editable"}

C18_Refused ==
    \A i \in Resolved : \A k \in MutationCalls(i) :
        /\ k.r.db = DB
        /\ k.r.resp \notin {"ok", "no_change"}
        /\ (MayEdit(k.caller, i) /\ k.well_formed) => k.r.resp = k.refusal

LogOf(log, i) == SelectSeq(log, LAMBDA a : a.approval_id = i)

C18_Kept ==
    \A i \in Resolved :
        /\ i \in DOMAIN approvals'
        /\ approvals'[i] = approvals[i]
        /\ { s \in steps' : s.approval_id = i } = steps_of(DB, i)
        /\ { f \in files' : f.approval_id = i } = files_of(DB, i)
        /\ LogOf(actions', i) = LogOf(actions, i)
        /\ { v \in versions' : v.approval_id = i }
             = { v \in versions : v.approval_id = i }

C18_ResolvedFrozen == [](C18_Refused) /\ [][C18_Kept]_vars

\* an approved request with an attachment whose requester is turned away
\* from the chain and from the attachments, with the two named refusals
C18_Witness ==
    \E i \in Resolved :
        /\ approvals[i].status = "approved"
        /\ files_of(DB, i) # {}
        /\ add_approver_step(DB, i, Cat, <<"w">>).resp = "approval_not_pending"
        /\ reorder_pending_steps(DB, i, Root,
              [kind |-> "json", order |-> <<>>]).resp = "approval_not_pending"
        /\ update_approval_details(DB, i, Cat, <<"s">>, "org", "0").resp
              = "not_editable"
        /\ \E f \in files_of(DB, i) :
              delete_approval_attachment(DB, i, Cat, f.id).resp = "not_editable"
        /\ add_approver_step(DB, i, Cat, <<" ">>).resp = "invalid_display_name"

(***************************************************************************)
(* C19  Audit log is append-only.  No step of any handler deletes or       *)
(* changes an existing approval_actions row: the log of every request      *)
(* after the step is its log before, extended only by new rows.            *)
(***************************************************************************)
IsPrefix(old, new) ==
    /\ Len(old) <= Len(new)
    /\ SubSeq(new, 1, Len(old)) = old

C19_AppendOnly ==
    [][\A i \in 1..Len(approvals) :
          IsPrefix(LogOf(actions, i), LogOf(actions', i))]_vars

\* the rows that go missing are those of a step deleted in the same call
C19_LostOnlyWithStep ==
    [][\A i \in 1..Len(approvals) :
          \/ IsPrefix(LogOf(actions, i), LogOf(actions', i))
          \/ \E s \in steps_of(DB, i) :
                /\ s.id \notin { t.id : t \in steps' }
                /\ IsPrefix(SelectSeq(LogOf(actions, i),
                                      LAMBDA a : a.step_id # s.id),
                            LogOf(actions', i))
                /\ \E k \in DOMAIN actions : /\ actions[k].approval_id = i
                                             /\ actions[k].step_id = s.id]_vars

(***************************************************************************)
(* C20  Announcement on completion.  The step that approves or             *)
(* acknowledges the last step of a request adds exactly one memo for that  *)
(* request when its publish_memo flag is set at that moment, with          *)
(* visibility org for scope org and restricted for scope restricted or     *)
(* top_secret, and none when the flag is not set; no other step adds,      *)
(* changes or removes a memo; a pending or rejected request has no memo    *)
(* and no request has more than one.                                       *)
(***************************************************************************)
MemosOf(rows, i) == SelectSeq(rows, LAMBDA m : m.source_id = i)

MemoVisibility(scope) == IF scope = "org" THEN "org" ELSE "restricted"

C20_MemoCount ==
    /\ \A k \in DOMAIN memos : memos[k].source_id \in 1..Len(approvals)
    /\ \A i \in 1..Len(approvals) :
          Len(MemosOf(memos, i)) =
              IF approvals[i].status = "approved"
              THEN approvals[i].publish_memo ELSE 0

C20_Step ==
    \A i \in 1..Len(approvals) :
        LET completes == /\ approvals[i].status = "pending"
                         /\ approvals'[i].status = "approved"
        IN MemosOf(memos', i) =
              IF completes /\ approvals[i].publish_memo = 1
              THEN Append(MemosOf(memos, i),
                          [source_id |-> i,
                           visibility |->
                               MemoVisibility(approvals[i].view_scope)])
              ELSE MemosOf(memos, i)

C20_AnnouncementOnCompletion == [](C20_MemoCount) /\ [][C20_Step]_vars

\* a top_secret request submitted without the flag, switched on by an edit,
\* then completed: one memo, restricted
C20_Witness ==
    \E i \in 1..Len(approvals) :
        /\ approvals[i].status = "approved"
        /\ approvals[i].view_scope = "top_secret"
        /\ MemosOf(memos, i) = <<[source_id |-> i, visibility |-> "restricted"]>>
        /\ \E v \in versions : /\ v.approval_id = i
                               /\ v.changes = "submit"
                               /\ v.snapshot.approval.publish_memo = 0

(***************************************************************************)
(* C21  Mail failure is never fatal.  When the transport fails while a     *)
(* create or a decide notifies, the call still reports success; its        *)
(* changes stay committed.                                                 *)
(***************************************************************************)
C21_MailNeverFatal ==
    \A p \in Procs :
        (sess[p].pc = "replied" /\ sess[p].mail = "raised") =>
            sess[p].resp = "ok"

\* the other half: a call whose mail raised has written its changes
C21_ChangesCommitted ==
    \A p \in Procs :
        (sess[p].pc = "replied" /\ sess[p].mail = "raised") => sess[p].changed

(***************************************************************************)
(* C22  Integrity conflict in reorder.  When the unique index refuses a    *)
(* write of reorder_steps, the partial update is rolled back, the chain is *)
(* renumbered and the reorder is tried once more; the caller gets the      *)
(* conflict error only if that second try fails too.                       *)
(***************************************************************************)
DBNext == [approvals |-> approvals', steps |-> steps', actions |-> actions',
           memos |-> memos', files |-> files', versions |-> versions',
           next_step_id |-> next_step_id', next_action_id |-> next_action_id',
           next_file_id |-> next_file_id']

\* the step in which a connection answers integrity_conflict
Conflicts(p) == sess[p].pc = "reorder_write" /\ sess'[p].pc = "idle"

\* C22 - a reorder answers integrity_conflict only when the write would be
\* refused again on the renumbered table
C22_ConflictOnlyAfterRetry ==
    [][\A p \in Procs : Conflicts(p) => ~reorder_try(DBNext, sess[p]).ok]_vars

\* what the handler does keep: the refused reorder leaves the renumbered old
\* table, no row of it moved to the high band, and no audit row
C22_RolledBack ==
    [][\A p \in Procs : Conflicts(p) =>
          /\ DBNext = renumber_steps(DB, sess[p].approval_id)
          /\ \A s \in steps' : s.step_order < SHIFT]_vars

(***************************************************************************)
(* C23  Reorder result.  A successful reorder_steps with the sequence      *)
(* [id_1, ..., id_m] on a request with current_step = c leaves id_j at     *)
(* step_order c+j, keeps the order of every step at or before c, changes   *)
(* no step's status or approver (nor any other column, nor any other       *)
(* request's steps), keeps the request's status and current_step, and      *)
(* appends exactly one reorder_steps audit row.                            *)
(***************************************************************************)
WithoutOrder(rows) ==
    { [id |-> s.id, approval_id |-> s.approval_id,
       approver_name |-> s.approver_name, status |-> s.status,
       comment |-> s.comment] : s \in rows }

\* C23 - after a successful reorder the listed steps sit at current_step+1..
\* in the order given, nothing else changes and one audit row is written
C23_ReorderResult ==
    ReorderCalls(LAMBDA i, caller, ids, r :
        r.resp = "ok" =>
            LET c == approvals[i].current_step
            IN /\ \A j \in DOMAIN ids :
                     \E s \in steps_of(r.db, i) :
                        s.id = ids[j] /\ s.step_order = c + j
               /\ \A s \in steps_of(DB, i) :
                     s.step_order <= c => s \in r.db.steps
               /\ WithoutOrder(r.db.steps) = WithoutOrder(steps)
               /\ Cardinality(r.db.steps) = Cardinality(steps)
               /\ { s \in r.db.steps : s.approval_id # i }
                     = { s \in steps : s.approval_id # i }
               /\ r.db.approvals = approvals
               /\ Len(r.db.actions) = Len(actions) + 1
               /\ SubSeq(r.db.actions, 1, Len(actions)) = actions
               /\ LET a == r.db.actions[Len(actions) + 1]
                  IN /\ a.action = "reorder_steps"
                     /\ a.approval_id = i
                     /\ a.actor = caller.user)

\* two steps behind the active step were swapped: the reorder row is in the
\* log and the step created later now comes first
C23_Witness ==
    \E i \in DOMAIN approvals :
        /\ \E k \in DOMAIN actions : /\ actions[k].approval_id = i
                                     /\ actions[k].action = "reorder_steps"
        /\ \E s, t \in steps_of(DB, i) :
              /\ s.id > t.id
              /\ t.step_order > approvals[i].current_step
              /\ s.step_order < t.step_order

(***************************************************************************)
(* C24  Decided steps are immutable.  Once a step is approved or rejected, *)
(* no later call (decide, add_step, delete_step, reorder_steps, the        *)
(* renumbering, content edit, attachment calls) changes its status,        *)
(* comment, approver name or step_order, or deletes it.                    *)
(***************************************************************************)
DecidedSteps(rows) == { s \in rows : s.status \in {"approved", "rejected"} }

\* every step of the chain handlers keeps the decided rows as they are
C24_DecidedKept == DecidedSteps(steps) \subseteq steps'

\* the content and attachment handlers do not write the step table at all
C24_EditsKeepSteps ==
    \A i \in ApprovalIds, caller \in Callers :
        /\ \A x \in Subjects \X AllScopes \X AllPublish :
              update_approval_details(DB, i, caller, x[1], x[2], x[3]).db.steps
                 = steps
        /\ \A u \in Uploads :
              add_approval_attachments(DB, i, caller, u).db.steps = steps
        /\ \A f \in FileIds :
              delete_approval_attachment(DB, i, caller, f).db.steps = steps

\* C24 - a step that is approved or rejected is never changed, moved or
\* removed by any later operation
C24_DecidedStepsImmutable == [](C24_EditsKeepSteps) /\ [][C24_DecidedKept]_vars

\* a decision followed by a change of the chain behind it
C24_Witness ==
    \E i \in DOMAIN approvals :
        /\ approvals[i].status = "pending"
        /\ DecidedSteps(steps_of(DB, i)) # {}
        /\ \E k, l \in DOMAIN actions :
              /\ k < l
              /\ actions[k].approval_id = i
              /\ actions[l].approval_id = i
              /\ actions[k].action \in {"approve", "ack"}
              /\ actions[l].action \in {"add_approver", "delete_step",
                                         "reorder_steps"}

(***************************************************************************)
(* C25  A chain mutation racing with a decision is self-detecting.  When   *)
(* an add_step, delete_step or reorder_steps has validated before a        *)
(* decision committed and writes after it, then either the mutation fails, *)
(* or afterwards a pending request still has exactly one pending step at   *)
(* current_step and an approved request has no pending step, and the step  *)
(* that became active is neither deleted nor moved.                        *)
(***************************************************************************)
\* the state a request is meant to be in, on a database value
ChainSound(db, i) ==
    LET a == db.approvals[i]
        pending == { s \in steps_of(db, i) : s.status = "pending" }
    IN /\ a.status = "pending" =>
             Cardinality({ s \in pending : s.step_order = a.current_step }) = 1
       /\ a.status = "approved" => pending = {}

ActiveRows(db, i) ==
    { s \in steps_of(db, i) :
        /\ db.approvals[i].status = "pending"
        /\ s.status = "pending"
        /\ s.step_order = db.approvals[i].current_step }

\* the step in which a connection commits the write of a chain mutation
MutationCommits(p) ==
    /\ sess[p].pc \in {"add_write", "delete_write", "reorder_write"}
    /\ sess'[p].pc = "renumber"

\* C25 - a chain mutation written after a decision it did not see either
\* fails or leaves the request sound and the active step in place
C25_StaleMutationSafe ==
    [][\A p \in Procs : MutationCommits(p) =>
          LET i == sess[p].approval_id
              after == renumber_steps(DBNext, i)
          IN ChainSound(DB, i) =>
                /\ ChainSound(after, i)
                /\ ActiveRows(DB, i) \subseteq after.steps]_vars

(***************************************************************************)
(* C26  Delete and renumber are one atomic unit: the removal of a step and *)
(* the renumbering that follows are one transaction, so no decide,         *)
(* add_step or reorder_steps on the same request reads or writes a chain   *)
(* whose step orders have a gap left by a delete.                          *)
(***************************************************************************)
\* a connection has committed a removal and not yet renumbered, and the
\* chain it left has a gap
GapLeftByDelete(i) ==
    /\ ~Dense(DB, i)
    /\ \E q \in Procs :
          /\ sess[q].pc = "renumber" /\ sess[q].approval_id = i
          /\ \E k \in DOMAIN actions :
                /\ actions[k].approval_id = i
                /\ actions[k].action = "delete_step"
                /\ actions[k].step_id \notin { s.id : s \in steps }
                /\ \A n \in DOMAIN actions : n <= k

\* connection p reads for, or writes of, a decide, add_step or reorder_steps
ReadsOrWrites(p) ==
    \/ /\ sess[p].pc \in {"ready", "idle"}
       /\ sess'[p].pc \in {"write", "add_write", "reorder_write"}
    \/ /\ sess[p].pc \in {"write", "add_write", "reorder_write"}
       /\ sess'[p].pc # sess[p].pc

\* C26 - no decide, add_step or reorder_steps reads or writes a chain with
\* the gap of a delete that has not renumbered yet
C26_DeleteRenumberAtomic ==
    [][\A p \in Procs : ReadsOrWrites(p) => ~GapLeftByDelete(1)]_vars

(***************************************************************************)
(* C27  The todo list matches decidability.  Every request listed for a    *)
(* caller under the todo scope (the list page's todo section, a search     *)
(* with scope=todo) is pending, its step at current_step is pending and    *)
(* names the caller, so a decision by that caller with a valid comment is  *)
(* accepted; and the list page's todo section holds every such request.    *)
(***************************************************************************)
\* request i is pending and its pending step at current_step names caller c
AwaitsCaller(i, c) ==
    /\ approvals[i].status = "pending"
    /\ \E s \in steps_of(DB, i) :
          /\ s.step_order = approvals[i].current_step
          /\ s.status = "pending"
          /\ normi(s.approver_name) \in user_identity_keys(c.user)

\* every decision of c on i with a comment is carried out
DecideAccepted(i, c) ==
    \A action \in {"approve", "reject", "ack"} :
        LET r == do_action(DB, i, c, action, <<" ", "o">>)
        IN /\ r.resp = "ok"
           /\ r.db.actions # actions
           /\ \E s \in steps_of(DB, i) :
                 /\ s.step_order = approvals[i].current_step
                 /\ \E t \in r.db.steps : t.id = s.id /\ t.status # "pending"

SeqIds(rows) == { rows[k] : k \in DOMAIN rows }

\* C27 - what the todo scope lists for a caller is what that caller can
\* decide, and the list page's todo section lists all of it
C27_TodoMatchesDecidability ==
    \A c \in Callers :
        /\ LET page == list_page(DB, c)
           IN /\ \A i \in SeqIds(page.my_todo) :
                    AwaitsCaller(i, c) /\ DecideAccepted(i, c)
              /\ page.resp = "ok" =>
                    \A i \in DOMAIN approvals :
                        AwaitsCaller(i, c) => i \in SeqIds(page.my_todo)
        /\ \A q \in Queries, status \in StatusFilters, date_from \in Dates,
              date_to \in Dates, limit \in Limits :
              \A i \in SearchIds(c, q, "todo", status, date_from, date_to,
                                 limit) :
                  AwaitsCaller(i, c) /\ DecideAccepted(i, c)

\* a request whose second step is active and is listed for its approver, by
\* the list page and by a todo search, and for nobody else who is logged in
C27_Witness ==
    \E i \in DOMAIN approvals :
        /\ approvals[i].current_step = 1
        /\ i \in SeqIds(list_page(DB, Amy).my_todo)
        /\ i \in SearchIds(Amy, <<>>, "todo", "all", 0, 0, 1)
        /\ i \notin SeqIds(list_page(DB, Cat).my_todo)
        /\ list_page(DB, Cat).resp = "ok"

(***************************************************************************)
(* C28  Chain mutations keep the active step.  No add_step, delete_step or *)
(* reorder_steps call, accepted or refused, with the renumbering it        *)
(* triggers, and no opening of the detail view with its renumbering,       *)
(* changes a request's status or current_step or the step (by id) that     *)
(* occupies current_step.                                                  *)
(***************************************************************************)
OccupantIds(db, j) ==
    { s.id : s \in { t \in steps_of(db, j) :
                       t.step_order = db.approvals[j].current_step } }

ActiveStepKept(r) ==
    /\ DOMAIN r.db.approvals = DOMAIN approvals
    /\ \A j \in DOMAIN approvals :
          /\ r.db.approvals[j].status = approvals[j].status
          /\ r.db.approvals[j].current_step = approvals[j].current_step
          /\ OccupantIds(r.db, j) = OccupantIds(DB, j)
          /\ \A s \in steps_of(DB, j) :
                s.id \in OccupantIds(DB, j) => s \in r.db.steps

\* C28 - add_step, delete_step, reorder_steps and the detail view keep
\* status, current_step and the step at current_step
C28_MutationsKeepActiveStep ==
    /\ AddCalls(LAMBDA i, caller, d, r : ActiveStepKept(r))
    /\ DeleteCalls(LAMBDA i, caller, step_id, r : ActiveStepKept(r))
    /\ ReorderCalls(LAMBDA i, caller, ids, r : ActiveStepKept(r))
    /\ \A i \in ApprovalIds, caller \in Callers :
          ActiveStepKept(detail_page(DB, i, caller))

\* a pending request on its second step to whose chain a step was added
\* after the first decision, the active step still in place, and on which a
\* further add and a delete are accepted
C28_Witness ==
    \E i \in DOMAIN approvals :
        /\ approvals[i].status = "pending" /\ approvals[i].current_step = 1
        /\ Cardinality(OccupantIds(DB, i)) = 1
        /\ \E k, n \in DOMAIN actions :
              /\ k < n
              /\ actions[k].approval_id = i /\ actions[k].action = "approve"
              /\ actions[n].approval_id = i
              /\ actions[n].action = "add_approver"
        /\ \E d \in AddInputs : add_approver_step(DB, i, Cat, d).resp = "ok"
        /\ \E step_id \in StepIds :
              delete_approver_step(DB, i, Cat, step_id).resp = "ok"

(***************************************************************************)
(* Requests whose approvers do decide: the handlers run to completion, and *)
(* whenever a step is active and a user is its named approver, that user   *)
(* eventually sends a decision with a comment.  The chain changes are      *)
(* counted, so add_step is called finitely often.                          *)
(***************************************************************************)
MaxReqLive == 2
MaxStepIdLive == 3
MaxLogLive == 4

\* chains as the form sends them; an item may be an empty or blank text
LiveChains == { << <<"C", " ">>, <<"a">> >>, << <<"a">>, <<" ">> >> }
LiveNames == { <<"w">> }
LiveIds == 1..MaxReqLive

\* create and the chain changes stop when the tables of the model are full
WithinBoundsLive(db) ==
    /\ Len(db.approvals) <= MaxReqLive
    /\ db.next_step_id <= MaxStepIdLive + 1
    /\ db.next_action_id <= MaxLogLive + 1

CommitLive(r) ==
    /\ approvals' = r.db.approvals
    /\ steps' = r.db.steps
    /\ actions' = r.db.actions
    /\ memos' = r.db.memos
    /\ files' = r.db.files
    /\ versions' = r.db.versions
    /\ next_step_id' = r.db.next_step_id
    /\ next_action_id' = r.db.next_action_id
    /\ next_file_id' = r.db.next_file_id
    /\ UNCHANGED sess

LiveCreate ==
    \E chain \in LiveChains :
        LET r == create_approval(DB, Cat, <<"c">>, <<"s">>, "org",
                                 [kind |-> "list", items |-> chain], "0", <<>>)
        IN WithinBoundsLive(r.db) /\ CommitLive(r)

\* any decide call of any caller
LiveDecide ==
    \E approval_id \in LiveIds, caller \in Callers,
       action \in ActionNames, comment \in Comments :
        CommitLive(do_action(DB, approval_id, caller, action, comment))

\* the named approver of the active step of request i sends a decision with
\* a comment
ApproverDecides(i) ==
    \E caller \in Callers, action \in {"approve", "reject", "ack"} :
        /\ i \in DOMAIN approvals
        /\ approvals[i].status = "pending"
        /\ \E s \in steps_of(DB, i) :
              /\ s.step_order = approvals[i].current_step
              /\ s.status = "pending"
              /\ is_step_approver(caller, s.approver_name)
        /\ CommitLive(do_action(DB, i, caller, action, <<" ", "o">>))

LiveAddStep ==
    \E approval_id \in LiveIds, display_name \in LiveNames :
        LET r == add_approver_step(DB, approval_id, Cat, display_name)
        IN WithinBoundsLive(r.db) /\ CommitLive(r)

LiveDeleteStep ==
    \E approval_id \in LiveIds, step_id \in 1..MaxStepIdLive :
        LET r == delete_approver_step(DB, approval_id, Cat, step_id)
        IN WithinBoundsLive(r.db) /\ CommitLive(r)

LiveReorder ==
    \E approval_id \in LiveIds, body \in Bodies :
        LET r == reorder_pending_steps(DB, approval_id, Cat, body)
        IN WithinBoundsLive(r.db) /\ CommitLive(r)

LiveDetail ==
    \E approval_id \in LiveIds, caller \in Callers :
        CommitLive(detail_page(DB, approval_id, caller))

NextLive ==
    \/ LiveCreate \/ LiveDecide \/ LiveAddStep \/ LiveDeleteStep
    \/ LiveReorder \/ LiveDetail

SpecLive ==
    /\ Init /\ [][NextLive]_vars
    /\ \A i \in LiveIds : WF_vars(ApproverDecides(i))

(***************************************************************************)
(* C29  Progress.  When the named approver of the active step eventually   *)
(* sends a decision with a comment and add_step is called finitely often,  *)
(* every pending request eventually becomes approved or rejected; no       *)
(* sequence of completed operations leaves a request pending without a     *)
(* step its named approver can decide; and current_step never decreases    *)
(* while the request is pending.                                           *)
(***************************************************************************)
\* request i has a pending step at current_step that some login can decide:
\* user_identity_keys holds the normalised login and never the empty text
HasDecidableStep(i) ==
    \E s \in steps_of(DB, i) :
        /\ s.step_order = approvals[i].current_step
        /\ s.status = "pending"
        /\ normi(s.approver_name) # <<>>

Pending(i) == i \in DOMAIN approvals /\ approvals[i].status = "pending"

Decided(i) ==
    i \in DOMAIN approvals /\ approvals[i].status \in {"approved", "rejected"}

C29_NeverStuck ==
    \A i \in LiveIds : Pending(i) => HasDecidableStep(i)

C29_PointerMonotone ==
    \A i \in LiveIds :
        (Pending(i) /\ approvals'[i].status = "pending") =>
            approvals'[i].current_step >= approvals[i].current_step

C29_EventuallyResolved ==
    \A i \in LiveIds :
        Pending(i) ~> Decided(i)

\* C29 - every pending request is eventually decided, is never left without
\* a step its approver can decide, and its current_step never decreases
C29_Progress ==
    /\ C29_EventuallyResolved
    /\ []C29_NeverStuck
    /\ [][C29_PointerMonotone]_vars

(***************************************************************************)
(* C30  Attachments follow the visibility gate: an attachment of a request *)
(* is served only to a caller for whom the visibility gate of that request *)
(* holds (admin, or module access plus org scope or participation); a      *)
(* caller who is neither admin nor participant never obtains an attachment *)
(* of a restricted or top_secret request.                                  *)
(***************************************************************************)
C30_AttachmentsFollowGate ==
    \A i \in 1..Len(approvals), c \in Callers, file_id \in FileIds :
        download_file(DB, i, c, file_id).resp = "file" =>
            /\ c.user # <<>>
            /\ Granted(i, c)

====
